---- MODULE Spec2Model ----
(***************************************************************************)
(* Reward bot (Telegram mini-app backend): the account, task, submission   *)
(* and referral tables of src/main.py and src/Configure.py, and the        *)
(* handlers that read and write them.                                      *)
(*                                                                         *)
(* The two source files are two variants of the same service.  The         *)
(* variable `variant` fixes which one runs; every handler is translated    *)
(* from the code of that variant.                                          *)
(*                                                                         *)
(* Spec      : every handler runs as one step (one request at a time).     *)
(* SpecConc  : daily_claim requests of several workers, one SQL statement  *)
(*             per step, under SQLite's single-writer lock.                *)
(***************************************************************************)
EXTENDS Integers, Sequences, FiniteSets, TLC

VARIABLES
    variant,    \* "main" (src/main.py) or "configure" (src/Configure.py)
    membership, \* what is_member_of_channel depends on: DEV_SKIP_MEMBERSHIP,
                \* tg_bot, CHANNEL_LINK and the outcome of get_chat_member
    board,      \* the last leaderboard request and the rows it returned
    now,        \* utcnow(), in hours
    users,      \* table users: user_id -> row
    tasks,      \* table tasks: task_id -> row
    subs,       \* table task_submissions: submission_id -> row
    referrals,  \* table referrals: set of <<referrer_id, referred_id>>
    seq_tasks,  \* AUTOINCREMENT high-water mark of tasks
    seq_subs,   \* AUTOINCREMENT high-water mark of task_submissions
    resp,       \* the response of the last request
    nops,       \* number of requests served
    hist,       \* history of credits (observation only, never read by a handler)
    procs,      \* SpecConc: the workers' requests in flight
    dblock,     \* SpecConc: the worker holding SQLite's write lock, 0 if none
    auth,       \* the process's configuration, whether it runs, and the last
                \* init_data a handler verified with the identity it went on with
    uploads,    \* directory UPLOAD_DIR: file name -> the file written under it
    verifiers   \* table verifiers: set of verifier_id

vars == <<variant, membership, board, now, users, tasks, subs, referrals, seq_tasks, seq_subs,
          resp, nops, hist, procs, dblock, auth, uploads, verifiers>>

----------------------------------------------------------------------------
(* Bounds of the model *)

MaxOps == 4
TickHours == 12
NumProcs == 2
MaxCalls == 3
MaxTicks == 2

(* Program constants *)

DailyReward == 50
AdReward == 100
ReferralReward == 200
StartCoins == 100
BoostThreshold == 3
BoostHours == 2

----------------------------------------------------------------------------
(* Values *)

Variants == {"main", "configure"}
UserIds == {1, 2, 3}    \* accounts: 1 is the admin
WebUsers == {1, 2}      \* callers of the mini-app endpoints
ADMIN_IDS == {1}
Callers == {1, 2}
Rewards == {-5, 5}
Reasons == {"", "blurry"}
Actions == {"approve", "reject", "bogus"}
ProcIds == 1..NumProcs

Null == <<>>
Some(x) == <<x>>

\* datetime.date(): the UTC date of an instant given in hours
DateOf(t) == t \div 24

\* A row as INSERT OR IGNORE INTO users creates it (columns not given take the
\* schema defaults: 0 for the counters, NULL for boost_until and last_daily).
NewUser(c) ==
    [coins |-> c, ads_watched |-> 0, ad_counter |-> 0,
     boost_until |-> Null, last_daily |-> Null]

\* (variation: INSERT OR REPLACE, the existing row is overwritten)
InsertOrReplaceUser(tbl, uid, c) ==
    [u \in DOMAIN tbl \cup {uid} |-> IF u = uid THEN NewUser(c) ELSE tbl[u]]

\* INSERT OR IGNORE INTO users ...: no effect when the primary key exists
InsertOrIgnoreUser(tbl, uid, c) ==
    IF uid \in DOMAIN tbl THEN tbl ELSE tbl @@ (uid :> NewUser(c))

\* (variation: the amount added twice)
AddCoinsTwice(tbl, uid, amt) ==
    IF uid \in DOMAIN tbl THEN [tbl EXCEPT ![uid].coins = @ + amt + amt] ELSE tbl

\* UPDATE users SET coins = COALESCE(coins,0) + ? WHERE user_id = ?
\* (no row matches: nothing is updated)
AddCoins(tbl, uid, amt) ==
    IF uid \in DOMAIN tbl THEN [tbl EXCEPT ![uid].coins = @ + amt] ELSE tbl

\* The last request and its response: the handler, the caller, the result code,
\* the id the request names (submission, task or referrer), the amount reported,
\* the action of a review or the file of an upload, whether the caller is a
\* member of the channel (as Telegram would answer; TRUE where the request
\* involves no membership), whether verify_init_data accepted the request's
\* init_data, the reason a review gives, the submission status the response
\* body reports ("" when it reports none), the coins_total, ads_watched and
\* boost_until an ad_watched response reports, and the request's number.
Resp(op, uid, code, ref, amount) ==
    [op |-> op, uid |-> uid, code |-> code, ref |-> ref, amount |-> amount,
     arg |-> "", member |-> TRUE, authed |-> TRUE, reason |-> "", status |-> "",
     total |-> 0, views |-> 0, boost |-> Null,
     seq |-> nops + 1]

MemberResp(op, uid, code, ref, amount, member) ==
    [Resp(op, uid, code, ref, amount) EXCEPT !.member = member]

ReviewResp(caller, action, code, sid, amount) ==
    [Resp("review", caller, code, sid, amount) EXCEPT !.arg = action]

ProcIdle == [pc |-> "idle", op |-> "", uid |-> 0, last |-> Null, coins |-> 0, today |-> 0,
             result |-> "", w |-> <<>>, concurrent |-> FALSE]

HistInit ==
    [dailyCalls   |-> [u \in UserIds |-> {}],   \* dates of the daily_claim calls
     okDates      |-> [u \in UserIds |-> {}],   \* dates of the credited ones
     dailyCredits |-> [u \in UserIds |-> 0],    \* number of credited ones
     subCredits   |-> <<>>,
     submitReward |-> <<>>,
     refCredits   |-> [p \in UserIds \X UserIds |-> 0],
     firstInviter |-> [u \in UserIds |-> Null]]

\* The configuration the membership check reads and what Telegram does when
\* asked: skip is DEV_SKIP_MEMBERSHIP, bot is whether tg_bot was created, link
\* is CHANNEL_LINK as its "/"-separated parts, outcome is the status
\* get_chat_member returns or "raise" when the call raises.
Deployment(skip, bot, link, outcome) ==
    [skip |-> skip, bot |-> bot, link |-> link, outcome |-> outcome]

\* The state after migrate() on an empty database
InitTables ==
    /\ variant \in Variants
    /\ membership = Deployment(FALSE, TRUE, <<"https:", "", "t.me", "chan">>, "member")
    /\ board = [page |-> 0, per_page |-> 0, rows |-> <<>>]
    /\ now = 0
    /\ users = <<>>
    /\ tasks = <<>>
    /\ subs = <<>>
    /\ referrals = {}
    /\ seq_tasks = 0
    /\ seq_subs = 0
    /\ resp = [op |-> "none", uid |-> 0, code |-> "", ref |-> 0, amount |-> 0,
               arg |-> "", member |-> TRUE, authed |-> TRUE, reason |-> "",
               status |-> "", total |-> 0, views |-> 0, boost |-> Null, seq |-> 0]
    /\ nops = 0
    /\ hist = HistInit
    /\ procs = [p \in ProcIds |-> ProcIdle]
    /\ dblock = 0
    /\ uploads = <<>>
    /\ verifiers = {}

\* BOT_TOKEN (the empty string when unset) and ENV
NoToken == ""
Tokens == {NoToken, "t1", "t2"}
Envs == {"development", "production"}

\* The process with configuration (env, token): "init" while the module is being
\* imported, "running" once the app serves, "refused" after SystemExit.
Process(env, token, state) ==
    [env |-> env, token |-> token, state |-> state,
     request |-> Null, code |-> "", uid |-> Null]

\* Spec and SpecConc: a running service with a secret configured
Init == InitTables /\ auth = Process("development", "t1", "running")

----------------------------------------------------------------------------
(* Time *)

Tick ==
    /\ nops < MaxOps
    /\ nops' = nops + 1
    /\ now' = now + TickHours
    /\ UNCHANGED <<variant, membership, board, verifiers, auth, uploads, users, tasks, subs, referrals, seq_tasks, seq_subs,
                   resp, hist, procs, dblock>>

----------------------------------------------------------------------------
(* daily_claim *)

\* What the handler writes to last_daily: main.py the date, Configure.py the
\* instant (utcnow().isoformat()).
StoredLastDaily(v, t) == IF v = "main" THEN Some(DateOf(t)) ELSE Some(t)

\* The date a stored last_daily stands for: main.py compares the stored date
\* itself, Configure.py parses the instant and takes its date.
LastDate(v, last) == IF v = "main" THEN last[1] ELSE DateOf(last[1])

\* (variation: the stored value compared with the instant, not date with date)
AlreadyClaimedSameInstant(v, last, t) == last = Some(t)

\* main.py: last == today; Configure.py: last_daily set and its date == today
AlreadyClaimedToday(v, last, t) ==
    last # Null /\ LastDate(v, last) = DateOf(t)

daily_claim(uid) ==
    LET u1   == InsertOrIgnoreUser(users, uid, 0)
        last == u1[uid].last_daily
    IN  /\ nops < MaxOps
        /\ nops' = nops + 1
        /\ IF AlreadyClaimedToday(variant, last, now)
           THEN \* con.close() without commit
                /\ users' = users
                /\ resp' = Resp("daily_claim", uid, "already_claimed", 0, 0)
                /\ hist' = [hist EXCEPT !.dailyCalls[uid] = @ \cup {DateOf(now)}]
           ELSE /\ users' = [u1 EXCEPT ![uid].coins = @ + DailyReward,
                                       ![uid].last_daily = StoredLastDaily(variant, now)]
                /\ resp' = Resp("daily_claim", uid, "ok", 0, DailyReward)
                /\ hist' = [hist EXCEPT !.dailyCalls[uid] = @ \cup {DateOf(now)},
                                        !.okDates[uid] = @ \cup {DateOf(now)},
                                        !.dailyCredits[uid] = @ + 1]
        /\ UNCHANGED <<variant, membership, board, verifiers, auth, uploads, now, tasks, subs, referrals, seq_tasks, seq_subs,
                       procs, dblock>>

----------------------------------------------------------------------------
(* Ad views *)

\* (variation: the counter is never reset)
StreakAfterNoReset(counter) == counter + 1

\* ad_counter after one more view, and whether this view activates the boost
StreakAfter(counter) ==
    IF counter + 1 >= BoostThreshold THEN 0 ELSE counter + 1

\* (variation: the boost one view early)
BoostActivatedEarly(counter) == counter + 2 >= BoostThreshold

BoostActivated(counter) == counter + 1 >= BoostThreshold

\* (variation: the view is paid but not counted)
AdWatchedRowUncounted(row, t) == [row EXCEPT !.coins = @ + AdReward]

\* The three UPDATEs of ad_watched on the caller's row
AdWatchedRow(row, t) ==
    [row EXCEPT !.coins = @ + AdReward,
                !.ads_watched = @ + 1,
                !.ad_counter = StreakAfter(row.ad_counter),
                !.boost_until = IF BoostActivated(row.ad_counter)
                                THEN Some(t + BoostHours) ELSE @]

\* (variation: the remaining views computed from the counter before this view)
AdsToNextStale(counter) == BoostThreshold - counter

\* ads_to_next: 3 when this view activates the boost, else 3 - ad_counter,
\* ad_counter being the stored counter plus one
AdsToNext(counter) ==
    IF counter + 1 >= BoostThreshold THEN BoostThreshold
    ELSE BoostThreshold - (counter + 1)

\* boost_activated: until when this view activates the boost, else None
BoostUntilReported(counter, t) ==
    IF counter + 1 >= BoostThreshold THEN Some(t + BoostHours) ELSE Null

\* member: the answer of is_member_of_channel(uid)
ad_watched(uid, member) ==
    /\ nops < MaxOps
    /\ nops' = nops + 1
    /\ IF ~member
       THEN /\ users' = users
            /\ resp' = MemberResp("ad_watched", uid, "join_channel", 0, 0, member)
       ELSE LET u1 == InsertOrIgnoreUser(users, uid, 0)
            IN  /\ users' = [u1 EXCEPT ![uid] = AdWatchedRow(u1[uid], now)]
                /\ resp' = [Resp("ad_watched", uid, "ok",
                                 AdsToNext(u1[uid].ad_counter), AdReward)
                              EXCEPT !.total = users'[uid].coins,
                                     !.views = users'[uid].ads_watched,
                                     !.boost = BoostUntilReported(u1[uid].ad_counter, now)]
    /\ UNCHANGED <<variant, membership, board, verifiers, auth, uploads, now, tasks, subs, referrals, seq_tasks, seq_subs,
                   hist, procs, dblock>>

\* Configure.py only: credits an ad view on any non-empty receipt.  The handler
\* never calls is_member_of_channel; member is what the call would answer.
verify_ad(uid, member) ==
    /\ variant = "configure"
    /\ nops < MaxOps
    /\ nops' = nops + 1
    /\ LET u1 == InsertOrIgnoreUser(users, uid, 0)
       IN  users' = [u1 EXCEPT ![uid].coins = @ + AdReward,
                               ![uid].ads_watched = @ + 1]
    /\ resp' = MemberResp("verify_ad", uid, "ok", 0, AdReward, member)
    /\ UNCHANGED <<variant, membership, board, verifiers, auth, uploads, now, tasks, subs, referrals, seq_tasks, seq_subs,
                   hist, procs, dblock>>

----------------------------------------------------------------------------
(* /start *)

\* main.py: referrer_id = int(args[0]) if args and args[0].isdigit() else None;
\* the referral branch runs when it is set and is not the caller.
\* Configure.py's bot_start never reads args.
ReferralApplies(v, uid, arg) == v = "main" /\ arg # Null /\ arg[1] # uid

\* (variation: the referrer's UPDATE left out)
CreditNobody(tbl, referrer) == tbl

\* INSERT OR IGNORE INTO referrals; UPDATE users SET coins = coins + 200
\* WHERE user_id = referrer_id.  The UPDATE does not depend on the INSERT.
CreditReferrer(tbl, referrer) == AddCoins(tbl, referrer, ReferralReward)

bot_start(uid, arg) ==
    LET u1 == InsertOrIgnoreUser(users, uid, StartCoins)
    IN  /\ nops < MaxOps
        /\ nops' = nops + 1
        /\ IF ReferralApplies(variant, uid, arg)
           THEN LET r == arg[1]
                IN  /\ referrals' = referrals \cup {<<r, uid>>}
                    /\ users' = CreditReferrer(u1, r)
                    /\ hist' = [hist EXCEPT
                          !.refCredits[<<r, uid>>] =
                              IF r \in DOMAIN u1 THEN @ + 1 ELSE @,
                          !.firstInviter[uid] =
                              IF @ = Null /\ r \in DOMAIN u1 THEN Some(r) ELSE @]
           ELSE /\ referrals' = referrals
                /\ users' = u1
                /\ hist' = hist
        /\ resp' = Resp("start", uid, "ok", IF arg = Null THEN 0 ELSE arg[1], 0)
        /\ UNCHANGED <<variant, membership, board, verifiers, auth, uploads, now, tasks, subs, seq_tasks, seq_subs,
                       procs, dblock>>

----------------------------------------------------------------------------
(* Task catalog *)

\* INSERT INTO tasks (title, description, link, reward): the requests of the
\* model always carry the same title, description and link
TaskRow(reward) ==
    [title |-> "title", description |-> "text", link |-> "url", reward |-> reward]

\* (variation: the catalog handlers without the identity check)
NotAdminNever(caller) == FALSE

\* if uid not in ADMIN_IDS: raise HTTPException(403, "admin_only")
NotAdmin(caller) == caller \notin ADMIN_IDS

add_task(caller, reward) ==
    /\ nops < MaxOps
    /\ nops' = nops + 1
    /\ IF NotAdmin(caller)
       THEN /\ resp' = Resp("add_task", caller, "admin_only", 0, 0)
            /\ UNCHANGED <<tasks, seq_tasks>>
       ELSE /\ tasks' = tasks @@ ((seq_tasks + 1) :> TaskRow(reward))
            /\ seq_tasks' = seq_tasks + 1
            /\ resp' = Resp("add_task", caller, "task_added", seq_tasks + 1, 0)
    /\ UNCHANGED <<variant, membership, board, verifiers, auth, uploads, now, users, subs, referrals, seq_subs, hist,
                   procs, dblock>>

\* COALESCE(?, column): the request's value, the stored one when it is NULL
Coalesce(new, old) == IF new = Null THEN old ELSE new[1]

\* payload.get(key, default): Null (None) only when the key is absent and no
\* default is given
GetOr(value, default) == IF value = Null THEN Some(default) ELSE value

\* UPDATE tasks SET title = COALESCE(?,title), description = COALESCE(?,description),
\* link = COALESCE(?,link), reward = COALESCE(?,reward), the parameters being
\* payload.get("title"), payload.get("description", ""), payload.get("link", "")
\* and payload.get("reward"); a field is Null when the request omits it
EditedRow(row, title, description, link, reward) ==
    [title       |-> Coalesce(title, row.title),
     description |-> Coalesce(GetOr(description, ""), row.description),
     link        |-> Coalesce(GetOr(link, ""), row.link),
     reward      |-> Coalesce(reward, row.reward)]

\* Configure.py only.  reward is Null when the request omits it; the requests
\* of the model omit title, description and link.
edit_task(caller, tid, reward) ==
    /\ variant = "configure"
    /\ nops < MaxOps
    /\ nops' = nops + 1
    /\ IF NotAdmin(caller)
       THEN /\ resp' = Resp("edit_task", caller, "admin_only", tid, 0)
            /\ tasks' = tasks
       ELSE /\ tasks' = IF tid \in DOMAIN tasks
                        THEN [tasks EXCEPT ![tid] = EditedRow(@, Null, Null, Null, reward)]
                        ELSE tasks
            /\ resp' = Resp("edit_task", caller, "task_updated", tid, 0)
    /\ UNCHANGED <<variant, membership, board, verifiers, auth, uploads, now, users, subs, referrals, seq_tasks, seq_subs,
                   hist, procs, dblock>>

\* The rows of a table tbl (a function) other than those with key in gone
Without(tbl, gone) == [k \in DOMAIN tbl \ gone |-> tbl[k]]

\* (variation: only the pending submissions of the task go with it)
PendingSubmissionsOf(tbl, tid) ==
    {s \in DOMAIN tbl : tbl[s].task_id = tid /\ tbl[s].status = "pending"}

\* DELETE FROM task_submissions WHERE task_id = ?: the rows it matches
SubmissionsOf(tbl, tid) == {s \in DOMAIN tbl : tbl[s].task_id = tid}

delete_task(caller, tid) ==
    /\ nops < MaxOps
    /\ nops' = nops + 1
    /\ IF NotAdmin(caller)
       THEN /\ resp' = Resp("delete_task", caller, "admin_only", tid, 0)
            /\ UNCHANGED <<tasks, subs>>
       ELSE /\ tasks' = Without(tasks, {tid})
            /\ subs' = Without(subs, SubmissionsOf(subs, tid))
            /\ resp' = Resp("delete_task", caller, "task_deleted", tid, 0)
    /\ UNCHANGED <<variant, membership, board, verifiers, auth, uploads, now, users, referrals, seq_tasks, seq_subs, hist,
                   procs, dblock>>

----------------------------------------------------------------------------
(* Submissions *)

\* (variation: the reward of the newest task, whatever task the submission names)
RewardOfLatestTask(tbl, tid) ==
    IF DOMAIN tbl = {} THEN 0
    ELSE tbl[CHOOSE k \in DOMAIN tbl : \A j \in DOMAIN tbl : k >= j].reward

\* SELECT reward FROM tasks WHERE task_id = ?; 0 when there is no such task
RewardOf(tbl, tid) == IF tid \in DOMAIN tbl THEN tbl[tid].reward ELSE 0

\* (variation: a submission born approved)
SubRowApproved(uid, tid, path) ==
    [user_id |-> uid, task_id |-> tid, status |-> "approved",
     reviewed_by |-> Null, review_reason |-> Null, file_path |-> path]

\* INSERT INTO task_submissions (user_id, task_id, file_path, submitted_at):
\* status takes the default 'pending', reviewer and reason are NULL
SubRow(uid, tid, path) ==
    [user_id |-> uid, task_id |-> tid, status |-> "pending",
     reviewed_by |-> Null, review_reason |-> Null, file_path |-> path]

\* The files a client can upload, by what matters of them: the size in bytes,
\* the suffix of the file name, and whether Pillow can verify the content.
Files == {"good", "upper", "noext", "empty", "big", "badext", "notimage"}
GoodFiles == {"good"}

MAX_UPLOAD_BYTES == 5 * 1024 * 1024
ALLOWED_EXT == {".jpg", ".jpeg", ".png", ".gif", ".webp"}

FileSize(file) ==
    IF file = "empty" THEN 0
    ELSE IF file = "big" THEN 6 * 1024 * 1024
    ELSE 1024

FileSuffix(file) ==
    IF file = "noext" THEN ""
    ELSE IF file = "badext" THEN ".exe"
    ELSE IF file = "upper" THEN ".PNG"
    ELSE ".png"

FileIsImage(file) == file \notin {"empty", "notimage"}

\* str.lower() on the suffixes in use
Lower(s) == IF s = ".PNG" THEN ".png" ELSE s

\* main.py: suffix or ".jpg"; Configure.py: suffix.lower() or ".jpg"
StoredExt(v, file) ==
    LET s == IF v = "main" THEN FileSuffix(file) ELSE Lower(FileSuffix(file))
    IN  IF s = "" THEN ".jpg" ELSE s

\* The checks of the upload, in the order of the code; "" when all pass.
\* main.py has none.
UploadError(v, file) ==
    IF v = "main" THEN ""
    ELSE IF FileSize(file) = 0 THEN "empty_file"
    ELSE IF FileSize(file) > MAX_UPLOAD_BYTES THEN "file_too_big"
    ELSE IF StoredExt(v, file) \notin ALLOWED_EXT THEN "invalid_extension"
    ELSE IF ~FileIsImage(file) THEN "invalid_image"
    ELSE ""

\* The error submit_proof raises, "" when it goes on to store the proof
SubmitError(v, authed, member, file) ==
    IF ~authed THEN "invalid_init_data"
    ELSE IF ~member THEN "join_channel"
    ELSE UploadError(v, file)

\* fname = f"{uid}_{ts}{ext}"
FileName(uid, t, ext) == <<uid, t, ext>>

\* open(fpath, "wb").write(content): creates or overwrites
WriteFile(dir, name, file) ==
    [n \in DOMAIN dir \cup {name} |-> IF n = name THEN file ELSE dir[n]]

SubmitResp(uid, code, ref, member, file, authed) ==
    [Resp("submit_proof", uid, code, ref, 0)
        EXCEPT !.member = member, !.arg = file, !.authed = authed]

\* authed: verify_init_data accepted the init_data (uid is the id it names);
\* member: the answer of is_member_of_channel(uid)
submit_proof(uid, tid, member, file, authed) ==
    LET err == SubmitError(variant, authed, member, file)
    IN  /\ nops < MaxOps
        /\ nops' = nops + 1
        /\ IF err # ""
           THEN /\ resp' = SubmitResp(uid, err, tid, member, file, authed)
                /\ UNCHANGED <<users, subs, seq_subs, hist, uploads>>
           ELSE /\ uploads' = WriteFile(uploads,
                                  FileName(uid, now, StoredExt(variant, file)), file)
                /\ users' = InsertOrIgnoreUser(users, uid, 0)
                /\ subs' = subs @@ ((seq_subs + 1) :> SubRow(uid, tid,
                                      FileName(uid, now, StoredExt(variant, file))))
                /\ seq_subs' = seq_subs + 1
                /\ resp' = SubmitResp(uid, "ok", tid, member, file, authed)
                /\ hist' = [hist EXCEPT
                      !.submitReward = @ @@ ((seq_subs + 1) :>
                                           IF tid \in DOMAIN tasks THEN tasks[tid].reward ELSE 0),
                      !.subCredits = @ @@ ((seq_subs + 1) :> 0)]
        /\ UNCHANGED <<variant, membership, board, verifiers, auth, now, tasks, referrals, seq_tasks, procs, dblock>>

\* (variations: no status check; only approved submissions are final)
ReviewableAlways(row) == TRUE
ReviewableUnlessApproved(row) == row.status # "approved"

\* if row["status"] != "pending": already reviewed
Reviewable(row) == row.status = "pending"

\* approve: main.py first ensures the submitter's account (INSERT OR IGNORE),
\* Configure.py only updates it.
CreditSubmitter(v, tbl, uid, reward) ==
    AddCoins(IF v = "main" THEN InsertOrIgnoreUser(tbl, uid, 0) ELSE tbl,
             uid, reward)

\* (variation: the review recorded without its reviewer)
ReviewedNoReviewer(row, status, reviewer, reason) ==
    [row EXCEPT !.status = status, !.review_reason = Some(reason)]

\* (variation: the review recorded without its reason)
ReviewedNoReason(row, status, reviewer, reason) ==
    [row EXCEPT !.status = status, !.reviewed_by = Some(reviewer)]

\* The status the already-reviewed answer carries: Configure.py returns
\* {"error": "already_reviewed", "status": row["status"]}, main.py returns
\* {"msg": "submission_already_reviewed"} and no status.
StatusReported(v, row) == IF v = "configure" THEN row.status ELSE ""

Reviewed(row, status, reviewer, reason) ==
    [row EXCEPT !.status = status, !.reviewed_by = Some(reviewer),
                !.review_reason = Some(reason)]

review_submission(caller, sid, action, reason) ==
    LET Answer(code, amount, status) ==
            [ReviewResp(caller, action, code, sid, amount)
                EXCEPT !.reason = reason, !.status = status]
    IN
    /\ nops < MaxOps
    /\ nops' = nops + 1
    /\ IF caller \notin ADMIN_IDS
       THEN /\ resp' = Answer("admin_only", 0, "")
            /\ UNCHANGED <<users, subs, hist>>
       ELSE IF variant = "configure" /\ action \notin {"approve", "reject"}
       THEN /\ resp' = Answer("invalid_action", 0, "")
            /\ UNCHANGED <<users, subs, hist>>
       ELSE IF sid \notin DOMAIN subs
       THEN /\ resp' = Answer("submission_not_found", 0, "")
            /\ UNCHANGED <<users, subs, hist>>
       ELSE IF ~Reviewable(subs[sid])
       THEN /\ resp' = Answer("already_reviewed", 0, StatusReported(variant, subs[sid]))
            /\ UNCHANGED <<users, subs, hist>>
       ELSE IF action = "approve"
       THEN LET reward == RewardOf(tasks, subs[sid].task_id)
            IN  /\ users' = CreditSubmitter(variant, users, subs[sid].user_id, reward)
                /\ subs' = [subs EXCEPT ![sid] = Reviewed(@, "approved", caller, reason)]
                /\ resp' = Answer("approved", reward, "")
                /\ hist' = [hist EXCEPT !.subCredits[sid] = @ + 1]
       ELSE IF action = "reject"
       THEN /\ subs' = [subs EXCEPT ![sid] = Reviewed(@, "rejected", caller, reason)]
            /\ resp' = Answer("rejected", 0, "")
            /\ UNCHANGED <<users, hist>>
       ELSE /\ resp' = Answer("invalid_action", 0, "")
            /\ UNCHANGED <<users, subs, hist>>
    /\ UNCHANGED <<variant, membership, board, verifiers, auth, uploads, now, tasks, referrals, seq_tasks, seq_subs,
                   procs, dblock>>

----------------------------------------------------------------------------

(* Inputs of the requests *)
RefArgs == {Null} \cup {Some(u) : u \in UserIds}
TaskArgs == 1..(seq_tasks + 1)
SubArgs == 1..(seq_subs + 1)
RewardArgs == {Null} \cup {Some(r) : r \in Rewards}

Next ==
    \/ Tick
    \/ \E uid \in WebUsers : daily_claim(uid)
    \/ \E uid \in WebUsers, member \in BOOLEAN : ad_watched(uid, member)
    \/ \E uid \in WebUsers, member \in BOOLEAN : verify_ad(uid, member)
    \/ \E uid \in UserIds, arg \in RefArgs : bot_start(uid, arg)
    \/ \E caller \in Callers, reward \in Rewards : add_task(caller, reward)
    \/ \E caller \in Callers, tid \in TaskArgs, reward \in RewardArgs :
          edit_task(caller, tid, reward)
    \/ \E caller \in Callers, tid \in TaskArgs : delete_task(caller, tid)
    \/ \E uid \in WebUsers, tid \in TaskArgs, member \in BOOLEAN, file \in GoodFiles :
          submit_proof(uid, tid, member, file, TRUE)
    \/ \E caller \in Callers, sid \in SubArgs, action \in Actions, reason \in Reasons :
          review_submission(caller, sid, action, reason)

Spec == Init /\ [][Next]_vars

----------------------------------------------------------------------------
(* daily_claim, one SQL statement per step (SpecConc).                     *)
(* Each worker p serves one request at a time on its own connection.  w is *)
(* the users table as p's open transaction sees it; today is the UTC date  *)
(* the call counts for: the date it compares last_daily with and, once it  *)
(* writes last_daily, the date it records there (Configure.py reads the    *)
(* clock again for the UPDATE).                                            *)

InFlight(p) == procs[p].pc \notin {"idle", "done"}

\* (variation: a first statement that takes no write lock)
CanBeginWriteUnlocked(p) == TRUE

\* The handler's first statement is INSERT OR IGNORE INTO users: sqlite3 opens a
\* transaction (implicit BEGIN before an INSERT) and the INSERT takes SQLite's
\* write lock, which one connection holds at a time; the others wait for it.
CanBeginWrite(p) == dblock = 0

c_request(p, uid) ==
    /\ ~InFlight(p)
    /\ nops < MaxCalls
    /\ nops' = nops + 1
    /\ procs' = [procs EXCEPT ![p] =
          [ProcIdle EXCEPT !.pc = "insert", !.op = "daily", !.uid = uid,
                           !.concurrent = \E q \in ProcIds \ {p} : InFlight(q)]]
    /\ UNCHANGED <<variant, membership, board, verifiers, auth, uploads, now, users, tasks, subs, referrals, seq_tasks,
                   seq_subs, resp, hist, dblock>>

\* cur.execute("INSERT OR IGNORE INTO users ...")
c_insert(p) ==
    /\ procs[p].pc = "insert" /\ procs[p].op = "daily"
    /\ CanBeginWrite(p)
    /\ dblock' = p
    /\ procs' = [procs EXCEPT ![p].pc = "select",
                              ![p].w = InsertOrIgnoreUser(users, procs[p].uid, 0)]
    /\ UNCHANGED <<variant, membership, board, verifiers, auth, uploads, now, users, tasks, subs, referrals, seq_tasks,
                   seq_subs, resp, nops, hist>>

\* cur.execute("SELECT last_daily[, coins] FROM users WHERE user_id = ?")
c_select(p) ==
    /\ procs[p].pc = "select" /\ procs[p].op = "daily"
    /\ procs' = [procs EXCEPT ![p].pc = "check",
                              ![p].last = procs[p].w[procs[p].uid].last_daily,
                              ![p].coins = procs[p].w[procs[p].uid].coins]
    /\ UNCHANGED <<variant, membership, board, verifiers, auth, uploads, now, users, tasks, subs, referrals, seq_tasks,
                   seq_subs, resp, nops, hist, dblock>>

\* today = utcnow().date(); already claimed: con.close() without commit, which
\* rolls the transaction back and releases the lock
c_check(p) ==
    /\ procs[p].pc = "check"
    /\ IF AlreadyClaimedToday(variant, procs[p].last, now)
       THEN /\ procs' = [procs EXCEPT ![p].pc = "done", ![p].today = DateOf(now),
                                      ![p].result = "already_claimed"]
            /\ dblock' = IF dblock = p THEN 0 ELSE dblock
            /\ hist' = [hist EXCEPT
                  !.dailyCalls[procs[p].uid] = @ \cup {DateOf(now)}]
       ELSE /\ procs' = [procs EXCEPT ![p].pc = "update", ![p].today = DateOf(now)]
            /\ UNCHANGED <<dblock, hist>>
    /\ UNCHANGED <<variant, membership, board, verifiers, auth, uploads, now, users, tasks, subs, referrals, seq_tasks,
                   seq_subs, resp, nops>>

\* main.py:      UPDATE users SET coins = COALESCE(coins,0) + 50, last_daily = today
\* Configure.py: UPDATE users SET coins = <coins read + 50>, last_daily = utcnow()
c_update(p) ==
    /\ procs[p].pc = "update"
    /\ LET uid == procs[p].uid
           row == procs[p].w[uid]
           new == IF variant = "main"
                  THEN [row EXCEPT !.coins = @ + DailyReward,
                                   !.last_daily = Some(procs[p].today)]
                  ELSE [row EXCEPT !.coins = procs[p].coins + DailyReward,
                                   !.last_daily = StoredLastDaily(variant, now)]
       IN  procs' = [procs EXCEPT ![p].pc = "commit", ![p].w[uid] = new,
                                  ![p].today = LastDate(variant, new.last_daily)]
    /\ UNCHANGED <<variant, membership, board, verifiers, auth, uploads, now, users, tasks, subs, referrals, seq_tasks,
                   seq_subs, resp, nops, hist, dblock>>

\* con.commit(); the handler returns ok
c_commit(p) ==
    /\ procs[p].pc = "commit" /\ procs[p].op = "daily"
    /\ users' = procs[p].w
    /\ dblock' = IF dblock = p THEN 0 ELSE dblock
    /\ procs' = [procs EXCEPT ![p].pc = "done", ![p].result = "ok"]
    /\ hist' = [hist EXCEPT
          !.dailyCalls[procs[p].uid] = @ \cup {procs[p].today},
          !.okDates[procs[p].uid] = @ \cup {procs[p].today},
          !.dailyCredits[procs[p].uid] = @ + 1]
    /\ UNCHANGED <<variant, membership, board, verifiers, auth, uploads, now, tasks, subs, referrals, seq_tasks, seq_subs,
                   resp, nops>>

c_tick ==
    /\ now + TickHours <= MaxTicks * TickHours
    /\ now' = now + TickHours
    /\ UNCHANGED <<variant, membership, board, verifiers, auth, uploads, users, tasks, subs, referrals, seq_tasks, seq_subs,
                   resp, nops, hist, procs, dblock>>

NextConc ==
    \/ c_tick
    \/ \E p \in ProcIds, uid \in WebUsers : c_request(p, uid)
    \/ \E p \in ProcIds : c_insert(p)
    \/ \E p \in ProcIds : c_select(p)
    \/ \E p \in ProcIds : c_check(p)
    \/ \E p \in ProcIds : c_update(p)
    \/ \E p \in ProcIds : c_commit(p)

SpecConc == Init /\ [][NextConc]_vars

----------------------------------------------------------------------------
(* Verifiers (SpecVerifiers): the verifiers table and the reviews.  Only    *)
(* main.py has the endpoints that write the table.                          *)

\* INSERT OR IGNORE INTO verifiers (verifier_id) VALUES (?)
add_verifier(caller, vid) ==
    /\ variant = "main"
    /\ nops < MaxOps
    /\ nops' = nops + 1
    /\ IF caller \notin ADMIN_IDS
       THEN /\ resp' = Resp("add_verifier", caller, "admin_only", vid, 0)
            /\ verifiers' = verifiers
       ELSE /\ resp' = Resp("add_verifier", caller, "verifier_added", vid, 0)
            /\ verifiers' = verifiers \cup {vid}
    /\ UNCHANGED <<variant, membership, board, auth, uploads, now, users, tasks, subs, referrals,
                   seq_tasks, seq_subs, hist, procs, dblock>>

\* DELETE FROM verifiers WHERE verifier_id = ?
remove_verifier(caller, vid) ==
    /\ variant = "main"
    /\ nops < MaxOps
    /\ nops' = nops + 1
    /\ IF caller \notin ADMIN_IDS
       THEN /\ resp' = Resp("remove_verifier", caller, "admin_only", vid, 0)
            /\ verifiers' = verifiers
       ELSE /\ resp' = Resp("remove_verifier", caller, "verifier_removed", vid, 0)
            /\ verifiers' = verifiers \ {vid}
    /\ UNCHANGED <<variant, membership, board, auth, uploads, now, users, tasks, subs, referrals,
                   seq_tasks, seq_subs, hist, procs, dblock>>

NextVerifiers ==
    \/ \E caller \in Callers, vid \in UserIds : add_verifier(caller, vid)
    \/ \E caller \in Callers, vid \in UserIds : remove_verifier(caller, vid)
    \/ \E uid \in WebUsers, tid \in TaskArgs, member \in BOOLEAN, file \in GoodFiles :
          submit_proof(uid, tid, member, file, TRUE)
    \/ \E caller \in Callers, sid \in SubArgs, action \in Actions, reason \in Reasons :
          review_submission(caller, sid, action, reason)

SpecVerifiers == Init /\ [][NextVerifiers]_vars

----------------------------------------------------------------------------
(* review_submission and ad_watched, one SQL statement per step (SpecTxn).  *)
(* Each worker serves one request at a time on its own connection          *)
(* (get_db() opens one per request).  A SELECT reads the committed tables   *)
(* and opens no transaction; the first INSERT or UPDATE of a request opens  *)
(* one and takes SQLite's write lock, waiting while another connection      *)
(* holds it; w is the tables as the open transaction sees them; commit      *)
(* makes w the committed tables; a request that raises before its commit    *)
(* loses w (the connection is dropped, SQLite rolls back).                  *)

TxnStart(op, uid, pc) ==
    [pc |-> pc, op |-> op, uid |-> uid, sid |-> 0, action |-> "", reason |-> "",
     target |-> 0, task_id |-> 0, reward |-> 0, counter |-> 0, w |-> <<>>,
     result |-> "", status |-> ""]

\* The tables as worker p's next statement sees them
TxnView(p) ==
    IF dblock = p THEN procs[p].w ELSE [users |-> users, subs |-> subs]

\* (variation: a first write does not wait for the write lock)
CanWriteAlways(p) == TRUE

\* Worker p holds the write lock or can take it
CanWrite(p) == dblock = p \/ CanBeginWrite(p)

\* The admin check of review_submission, before any statement
r_request(p, caller, sid, action, reason) ==
    /\ ~InFlight(p)
    /\ nops < MaxOps
    /\ nops' = nops + 1
    /\ procs' = [procs EXCEPT ![p] =
          IF caller \notin ADMIN_IDS
          THEN [TxnStart("review", caller, "done") EXCEPT
                   !.sid = sid, !.action = action, !.reason = reason,
                   !.result = "admin_only"]
          ELSE [TxnStart("review", caller, "select") EXCEPT
                   !.sid = sid, !.action = action, !.reason = reason]]
    /\ UNCHANGED <<variant, membership, board, verifiers, auth, uploads, now, users, tasks, subs,
                   referrals, seq_tasks, seq_subs, resp, hist, dblock>>

\* SELECT ... FROM task_submissions WHERE submission_id = ?; not found;
\* if row["status"] != "pending": already reviewed
r_select(p) ==
    /\ procs[p].pc = "select" /\ procs[p].op = "review"
    /\ LET sid == procs[p].sid
       IN  procs' = [procs EXCEPT ![p] =
              IF sid \notin DOMAIN subs
              THEN [@ EXCEPT !.pc = "done", !.result = "submission_not_found"]
              ELSE IF ~Reviewable(subs[sid])
              THEN [@ EXCEPT !.pc = "done", !.result = "already_reviewed",
                             !.status = StatusReported(variant, subs[sid])]
              ELSE [@ EXCEPT !.pc = IF procs[p].action = "approve" THEN "reward" ELSE "status",
                             !.target = subs[sid].user_id,
                             !.task_id = subs[sid].task_id]]
    /\ UNCHANGED <<variant, membership, board, verifiers, auth, uploads, now, users, tasks, subs,
                   referrals, seq_tasks, seq_subs, resp, nops, hist, dblock>>

\* SELECT reward FROM tasks WHERE task_id = ?
r_reward(p) ==
    /\ procs[p].pc = "reward"
    /\ procs' = [procs EXCEPT ![p].reward = RewardOf(tasks, procs[p].task_id),
                              ![p].pc = IF variant = "main" THEN "insert" ELSE "coins"]
    /\ UNCHANGED <<variant, membership, board, verifiers, auth, uploads, now, users, tasks, subs,
                   referrals, seq_tasks, seq_subs, resp, nops, hist, dblock>>

\* main.py: INSERT OR IGNORE INTO users (user_id, username, coins) VALUES (?, ?, 0)
r_insert(p) ==
    /\ procs[p].pc = "insert" /\ procs[p].op = "review"
    /\ CanWrite(p)
    /\ dblock' = p
    /\ procs' = [procs EXCEPT ![p].pc = "coins",
          ![p].w = [TxnView(p) EXCEPT
                       !.users = InsertOrIgnoreUser(@, procs[p].target, 0)]]
    /\ UNCHANGED <<variant, membership, board, verifiers, auth, uploads, now, users, tasks, subs,
                   referrals, seq_tasks, seq_subs, resp, nops, hist>>

\* UPDATE users SET coins = COALESCE(coins,0) + ? WHERE user_id = ?
r_coins(p) ==
    /\ procs[p].pc = "coins"
    /\ CanWrite(p)
    /\ dblock' = p
    /\ procs' = [procs EXCEPT ![p].pc = "status",
          ![p].w = [TxnView(p) EXCEPT
                       !.users = AddCoins(@, procs[p].target, procs[p].reward)]]
    /\ UNCHANGED <<variant, membership, board, verifiers, auth, uploads, now, users, tasks, subs,
                   referrals, seq_tasks, seq_subs, resp, nops, hist>>

\* UPDATE task_submissions SET status = ..., reviewed_by = ?, review_reason = ?
\* WHERE submission_id = ?
r_status(p) ==
    /\ procs[p].pc = "status"
    /\ CanWrite(p)
    /\ dblock' = p
    /\ LET sid == procs[p].sid
           new == IF procs[p].action = "approve" THEN "approved" ELSE "rejected"
       IN  procs' = [procs EXCEPT ![p].pc = "commit",
              ![p].w = [TxnView(p) EXCEPT
                           !.subs = IF sid \in DOMAIN @
                                    THEN [@ EXCEPT ![sid] = Reviewed(@, new, procs[p].uid,
                                                                    procs[p].reason)]
                                    ELSE @]]
    /\ UNCHANGED <<variant, membership, board, verifiers, auth, uploads, now, users, tasks, subs,
                   referrals, seq_tasks, seq_subs, resp, nops, hist>>

\* con.commit(); the handler returns approved or rejected
r_commit(p) ==
    /\ procs[p].pc = "commit" /\ procs[p].op = "review"
    /\ dblock = p
    /\ users' = procs[p].w.users
    /\ subs' = procs[p].w.subs
    /\ dblock' = 0
    /\ procs' = [procs EXCEPT ![p].pc = "done",
          ![p].result = IF procs[p].action = "approve" THEN "approved" ELSE "rejected"]
    /\ hist' = IF procs[p].action = "approve"
               THEN [hist EXCEPT !.subCredits[procs[p].sid] = @ + 1]
               ELSE hist
    /\ UNCHANGED <<variant, membership, board, verifiers, auth, uploads, now, tasks, referrals,
                   seq_tasks, seq_subs, resp, nops>>

\* (variation: the statements executed so far survive)
RollBackKeeps(committed, pending) == pending

\* A connection dropped with an open transaction: SQLite rolls the
\* transaction back, the committed table stays
RollBack(committed, pending) == committed

\* A request raises between two statements (the process is killed, the disk is
\* full, ...): nothing is committed, the write lock is released
t_fail(p) ==
    /\ InFlight(p)
    /\ procs' = [procs EXCEPT ![p].pc = "done", ![p].result = "error"]
    /\ dblock' = IF dblock = p THEN 0 ELSE dblock
    /\ users' = RollBack(users, TxnView(p).users)
    /\ subs' = RollBack(subs, TxnView(p).subs)
    /\ UNCHANGED <<variant, membership, board, verifiers, auth, uploads, now, tasks,
                   referrals, seq_tasks, seq_subs, resp, nops, hist>>

\* ad_watched after the membership check passed
a_request(p, uid) ==
    /\ ~InFlight(p)
    /\ nops < MaxOps
    /\ nops' = nops + 1
    /\ procs' = [procs EXCEPT ![p] = TxnStart("ad", uid, "insert")]
    /\ UNCHANGED <<variant, membership, board, verifiers, auth, uploads, now, users, tasks, subs,
                   referrals, seq_tasks, seq_subs, resp, hist, dblock>>

\* INSERT OR IGNORE INTO users (user_id, username, coins, ads_watched, ad_counter)
\* VALUES (?, ?, 0, 0, 0)
a_insert(p) ==
    /\ procs[p].pc = "insert" /\ procs[p].op = "ad"
    /\ CanWrite(p)
    /\ dblock' = p
    /\ procs' = [procs EXCEPT ![p].pc = "pay",
          ![p].w = [TxnView(p) EXCEPT
                       !.users = InsertOrIgnoreUser(@, procs[p].uid, 0)]]
    /\ UNCHANGED <<variant, membership, board, verifiers, auth, uploads, now, users, tasks, subs,
                   referrals, seq_tasks, seq_subs, resp, nops, hist>>

\* UPDATE users SET coins = COALESCE(coins,0) + ?,
\* ads_watched = COALESCE(ads_watched,0) + 1 WHERE user_id = ?
a_pay(p) ==
    /\ procs[p].pc = "pay"
    /\ dblock = p
    /\ procs' = [procs EXCEPT ![p].pc = "counter",
          ![p].w.users[procs[p].uid] =
              [@ EXCEPT !.coins = @ + AdReward, !.ads_watched = @ + 1]]
    /\ UNCHANGED <<variant, membership, board, verifiers, auth, uploads, now, users, tasks, subs,
                   referrals, seq_tasks, seq_subs, resp, nops, hist, dblock>>

\* SELECT COALESCE(ad_counter,0) FROM users WHERE user_id = ?
a_counter(p) ==
    /\ procs[p].pc = "counter"
    /\ dblock = p
    /\ procs' = [procs EXCEPT ![p].pc = "streak",
                              ![p].counter = procs[p].w.users[procs[p].uid].ad_counter]
    /\ UNCHANGED <<variant, membership, board, verifiers, auth, uploads, now, users, tasks, subs,
                   referrals, seq_tasks, seq_subs, resp, nops, hist, dblock>>

\* if ad_counter >= 3: UPDATE users SET boost_until = ?, ad_counter = 0
\* else: UPDATE users SET ad_counter = ?
a_streak(p) ==
    /\ procs[p].pc = "streak"
    /\ dblock = p
    /\ procs' = [procs EXCEPT ![p].pc = "commit",
          ![p].w.users[procs[p].uid] =
              [@ EXCEPT !.ad_counter = StreakAfter(procs[p].counter),
                        !.boost_until = IF BoostActivated(procs[p].counter)
                                        THEN Some(now + BoostHours) ELSE @]]
    /\ UNCHANGED <<variant, membership, board, verifiers, auth, uploads, now, users, tasks, subs,
                   referrals, seq_tasks, seq_subs, resp, nops, hist, dblock>>

\* con.commit()
a_commit(p) ==
    /\ procs[p].pc = "commit" /\ procs[p].op = "ad"
    /\ dblock = p
    /\ users' = procs[p].w.users
    /\ dblock' = 0
    /\ procs' = [procs EXCEPT ![p].pc = "read"]
    /\ UNCHANGED <<variant, membership, board, verifiers, auth, uploads, now, tasks, subs, referrals,
                   seq_tasks, seq_subs, resp, nops, hist>>

\* SELECT coins, ads_watched FROM users WHERE user_id = ?; the handler returns
a_read(p) ==
    /\ procs[p].pc = "read"
    /\ procs' = [procs EXCEPT ![p].pc = "done", ![p].result = "ok",
                              ![p].reward = users[procs[p].uid].coins]
    /\ UNCHANGED <<variant, membership, board, verifiers, auth, uploads, now, users, tasks, subs,
                   referrals, seq_tasks, seq_subs, resp, nops, hist, dblock>>

\* The inputs of SpecTxn
ReviewActions == {"approve", "reject"}
TxnReasons == {"blurry"}
TxnUsers == {2}

\* Requests served whole while no transaction is open: the catalog and the
\* submissions the reviews are about
TxnSetup ==
    /\ dblock = 0
    /\ \/ \E reward \in Rewards : \E caller \in ADMIN_IDS : add_task(caller, reward)
       \/ \E uid \in TxnUsers, tid \in TaskArgs :
             submit_proof(uid, tid, TRUE, "good", TRUE)

NextTxn ==
    \/ TxnSetup
    \/ \E p \in ProcIds, caller \in Callers, sid \in SubArgs,
          action \in ReviewActions, reason \in TxnReasons :
          r_request(p, caller, sid, action, reason)
    \/ \E p \in ProcIds : r_select(p)
    \/ \E p \in ProcIds : r_reward(p)
    \/ \E p \in ProcIds : r_insert(p)
    \/ \E p \in ProcIds : r_coins(p)
    \/ \E p \in ProcIds : r_status(p)
    \/ \E p \in ProcIds : r_commit(p)
    \/ \E p \in ProcIds, uid \in TxnUsers : a_request(p, uid)
    \/ \E p \in ProcIds : a_insert(p)
    \/ \E p \in ProcIds : a_pay(p)
    \/ \E p \in ProcIds : a_counter(p)
    \/ \E p \in ProcIds : a_streak(p)
    \/ \E p \in ProcIds : a_commit(p)
    \/ \E p \in ProcIds : a_read(p)
    \/ \E p \in ProcIds : t_fail(p)

SpecTxn == Init /\ [][NextTxn]_vars

----------------------------------------------------------------------------
(* The membership check (SpecMember) *)

\* link.rstrip('/'): the trailing empty parts dropped
RECURSIVE RStripSlash(_)
RStripSlash(link) ==
    IF link # <<>> /\ link[Len(link)] = ""
    THEN RStripSlash(SubSeq(link, 1, Len(link) - 1))
    ELSE link

\* link.rstrip('/').split('/')[-1]: the last part, "" for an empty string
extract_channel_username(link) ==
    LET parts == RStripSlash(link)
    IN  IF parts = <<>> THEN "" ELSE parts[Len(parts)]

MemberStatuses == {"member", "administrator", "creator"}

\* (variation: a failed call counts as membership)
ChatMemberOpen(outcome) ==
    IF outcome = "raise" THEN TRUE ELSE outcome \in MemberStatuses

\* try: member = tg_bot.get_chat_member(...); return member.status in (...)
\* except Exception: return False
ChatMember(outcome) ==
    IF outcome = "raise" THEN FALSE ELSE outcome \in MemberStatuses

\* is_member_of_channel(user_id) in variant v under deployment d
is_member_of_channel(v, d) ==
    IF v = "configure" /\ d.skip THEN TRUE
    ELSE IF ~d.bot THEN FALSE
    ELSE IF extract_channel_username(d.link) = "" THEN FALSE
    ELSE ChatMember(d.outcome)

Links == {<<>>, <<"">>, <<"https:", "", "t.me", "chan">>, <<"https:", "", "t.me", "chan", "">>}
Outcomes == {"member", "creator", "left", "raise"}

\* The service is restarted with other settings, or Telegram changes its answer
deploy(skip, bot, link, outcome) ==
    /\ membership' = Deployment(skip, bot, link, outcome)
    /\ membership' # membership
    /\ UNCHANGED <<variant, board, now, users, tasks, subs, referrals, seq_tasks,
                   seq_subs, resp, nops, hist, procs, dblock, auth, uploads, verifiers>>

MemberUsers == {2}

NextMember ==
    \/ \E skip, bot \in BOOLEAN, link \in Links, outcome \in Outcomes :
          deploy(skip, bot, link, outcome)
    \/ \E uid \in MemberUsers : ad_watched(uid, is_member_of_channel(variant, membership))
    \/ \E uid \in MemberUsers, tid \in TaskArgs :
          submit_proof(uid, tid, is_member_of_channel(variant, membership), "good", TRUE)

SpecMember == Init /\ [][NextMember]_vars

----------------------------------------------------------------------------
(* Leaderboard (SpecBoard) *)

\* ORDER BY coins DESC: SQLite keeps rows of equal coins in the order of the
\* table scan, which is ascending user_id (the INTEGER PRIMARY KEY)
RankedBefore(tbl, u, v) ==
    \/ tbl[u].coins > tbl[v].coins
    \/ tbl[u].coins = tbl[v].coins /\ u < v

\* The first of the accounts S in that order
Top(tbl, S) == CHOOSE u \in S : \A v \in S \ {u} : RankedBefore(tbl, u, v)

\* SELECT user_id, username, coins FROM users ORDER BY coins DESC
RECURSIVE Ranked(_, _)
Ranked(tbl, S) ==
    IF S = {} THEN <<>>
    ELSE LET u == Top(tbl, S)
         IN  <<[user_id |-> u, coins |-> tbl[u].coins]>> \o Ranked(tbl, S \ {u})

\* (variation: the offset one page too far)
OffsetNextPage(page, per_page) == page * per_page

\* offset = (page - 1) * per_page
Offset(page, per_page) == (page - 1) * per_page

\* ... LIMIT per_page OFFSET offset
LimitOffset(rows, limit, offset) ==
    SubSeq(rows, offset + 1,
           IF offset + limit < Len(rows) THEN offset + limit ELSE Len(rows))

\* The rows leaderboard(page, per_page) returns from table tbl
LeaderboardRows(tbl, page, per_page) ==
    LimitOffset(Ranked(tbl, DOMAIN tbl), per_page, Offset(page, per_page))

\* page: Query(1, ge=1); per_page: Query(20, ge=1, le=100)
Pages == 1..3
PerPages == 1..2

leaderboard(page, per_page) ==
    /\ nops < MaxOps
    /\ nops' = nops + 1
    /\ board' = [page |-> page, per_page |-> per_page,
                 rows |-> LeaderboardRows(users, page, per_page)]
    /\ UNCHANGED <<variant, membership, now, users, tasks, subs, referrals,
                   seq_tasks, seq_subs, resp, hist, procs, dblock, auth, uploads,
                   verifiers>>

NextBoard ==
    \/ \E uid \in WebUsers : daily_claim(uid)
    \/ \E uid \in WebUsers : ad_watched(uid, TRUE)
    \/ \E uid \in UserIds : bot_start(uid, Null)
    \/ \E page \in Pages, per_page \in PerPages : leaderboard(page, per_page)

SpecBoard == Init /\ [][NextBoard]_vars

----------------------------------------------------------------------------
(* daily_claim next to ad_watched and verify_ad, one SQL statement per step *)
(* (SpecMix)                                                                *)

\* Configure.py: verify_ad with a non-empty receipt
v_request(p, uid) ==
    /\ variant = "configure"
    /\ ~InFlight(p)
    /\ nops < MaxCalls
    /\ nops' = nops + 1
    /\ procs' = [procs EXCEPT ![p] = TxnStart("verify", uid, "insert")]
    /\ UNCHANGED <<variant, membership, board, verifiers, auth, uploads, now, users,
                   tasks, subs, referrals, seq_tasks, seq_subs, resp, hist, dblock>>

\* INSERT OR IGNORE INTO users (user_id, username, coins, ads_watched, ad_counter)
v_insert(p) ==
    /\ procs[p].pc = "insert" /\ procs[p].op = "verify"
    /\ CanWrite(p)
    /\ dblock' = p
    /\ procs' = [procs EXCEPT ![p].pc = "pay_verified",
          ![p].w = [TxnView(p) EXCEPT
                       !.users = InsertOrIgnoreUser(@, procs[p].uid, 0)]]
    /\ UNCHANGED <<variant, membership, board, verifiers, auth, uploads, now, users,
                   tasks, subs, referrals, seq_tasks, seq_subs, resp, nops, hist>>

\* UPDATE users SET coins = COALESCE(coins,0) + ?,
\* ads_watched = COALESCE(ads_watched,0) + 1 WHERE user_id = ?
v_pay(p) ==
    /\ procs[p].pc = "pay_verified"
    /\ dblock = p
    /\ procs' = [procs EXCEPT ![p].pc = "commit",
          ![p].w.users[procs[p].uid] =
              [@ EXCEPT !.coins = @ + AdReward, !.ads_watched = @ + 1]]
    /\ UNCHANGED <<variant, membership, board, verifiers, auth, uploads, now, users,
                   tasks, subs, referrals, seq_tasks, seq_subs, resp, nops, hist,
                   dblock>>

\* con.commit(); the handler reads the row back and returns
v_commit(p) ==
    /\ procs[p].pc = "commit" /\ procs[p].op = "verify"
    /\ dblock = p
    /\ users' = procs[p].w.users
    /\ dblock' = 0
    /\ procs' = [procs EXCEPT ![p].pc = "done", ![p].result = "ok"]
    /\ UNCHANGED <<variant, membership, board, verifiers, auth, uploads, now, tasks,
                   subs, referrals, seq_tasks, seq_subs, resp, nops, hist>>

\* The ad_watched request of the mix, within the same bound as the others
m_request(p, uid) == nops < MaxCalls /\ a_request(p, uid)

MixUsers == {1}

NextMix ==
    \/ \E p \in ProcIds, uid \in MixUsers : c_request(p, uid)
    \/ \E p \in ProcIds : c_insert(p)
    \/ \E p \in ProcIds : c_select(p)
    \/ \E p \in ProcIds : c_check(p)
    \/ \E p \in ProcIds : c_update(p)
    \/ \E p \in ProcIds : c_commit(p)
    \/ \E p \in ProcIds, uid \in MixUsers : m_request(p, uid)
    \/ \E p \in ProcIds : a_insert(p)
    \/ \E p \in ProcIds : a_pay(p)
    \/ \E p \in ProcIds : a_counter(p)
    \/ \E p \in ProcIds : a_streak(p)
    \/ \E p \in ProcIds : a_commit(p)
    \/ \E p \in ProcIds : a_read(p)
    \/ \E p \in ProcIds, uid \in MixUsers : v_request(p, uid)
    \/ \E p \in ProcIds : v_insert(p)
    \/ \E p \in ProcIds : v_pay(p)
    \/ \E p \in ProcIds : v_commit(p)

SpecMix == Init /\ [][NextMix]_vars

----------------------------------------------------------------------------
(* Uploads (SpecUpload): submit_proof with every kind of file, from members *)
(* and non-members, with and without a valid init_data.                     *)

NextUpload ==
    \/ Tick
    \/ \E uid \in WebUsers, tid \in TaskArgs, member \in BOOLEAN,
          file \in Files, authed \in BOOLEAN :
          submit_proof(uid, tid, member, file, authed)

SpecUpload == Init /\ [][NextUpload]_vars

----------------------------------------------------------------------------
(* Start-up and init_data verification (SpecAuth).                          *)
(* An init_data string is modelled by what parse_qsl makes of it: whether   *)
(* the string is empty, its user field (the id it names, Null when there is *)
(* no user field) and its hash field (Null when there is none).  A hash is  *)
(* the empty string <<>> or an HMAC, the pair of the key and the message it *)
(* was computed from.                                                       *)

EmptyHash == <<>>

\* hmac.new(sha256(bot_token), data_check_string, sha256).hexdigest():
\* equal digests only for equal key and equal message
Hmac(token, msg) == <<token, msg>>

\* "\n".join(f"{k}={parsed[k]}" for k in sorted(parsed)): the fields other than hash
DataCheckString(a) == a.user

\* parsed.pop('hash', None).  parse_qsl drops a field with a blank value
\* (keep_blank_values is off), so "hash=" parses as no hash field.
CheckHash(a) == IF a.hash = Some(EmptyHash) THEN Null ELSE a.hash

\* if check_hash: if bot_token: calculated_hash != check_hash
HashMismatch(a, bot_token) ==
    /\ CheckHash(a) # Null
    /\ bot_token # NoToken
    /\ Hmac(bot_token, DataCheckString(a)) # CheckHash(a)[1]

\* The result of verify_init_data: the fields parsed, or the ValueError raised
verify_init_data(a, bot_token) ==
    IF a.empty THEN [ok |-> FALSE, error |-> "missing_init_data", user |-> Null]
    ELSE IF HashMismatch(a, bot_token)
    THEN [ok |-> FALSE, error |-> "invalid_hash", user |-> Null]
    ELSE [ok |-> TRUE, error |-> "", user |-> a.user]

\* uid = int(user.get("id") or 0)
UidOf(user) == IF user = Null THEN 0 ELSE user[1]

\* The init_data strings a client can send
AuthUsers == {Null} \cup {Some(u) : u \in WebUsers}
Hashes == {Null, Some(EmptyHash)} \cup
          {Some(Hmac(k, m)) : k \in Tokens \ {NoToken}, m \in AuthUsers}
InitDatas ==
    {[empty |-> TRUE, user |-> Null, hash |-> Null]} \cup
    {[empty |-> FALSE, user |-> u, hash |-> h] : u \in AuthUsers, h \in Hashes}

\* Configure.py: if ENV == "production" and not BOT_TOKEN: raise SystemExit.
\* main.py reads no ENV and only logs a warning when BOT_TOKEN is unset.
RefusesToStart(v, env, token) ==
    v = "configure" /\ env = "production" /\ token = NoToken

\* Import of the module: the configuration is read, the service starts or exits
startup ==
    /\ auth.state = "init"
    /\ auth' = [auth EXCEPT !.state =
                   IF RefusesToStart(variant, auth.env, auth.token)
                   THEN "refused" ELSE "running"]
    /\ UNCHANGED <<variant, membership, board, verifiers, uploads, now, users, tasks, subs, referrals,
                   seq_tasks, seq_subs, resp, nops, hist, procs, dblock>>

\* The head of every mini-app handler: 400 on an empty init_data, 401 when
\* verify_init_data raises, otherwise the handler goes on as uid.
webapp_request(a) ==
    /\ auth.state = "running"
    /\ LET r == verify_init_data(a, auth.token)
       IN  auth' = [auth EXCEPT
                       !.request = Some(a),
                       !.code = IF a.empty THEN "init_data_required"
                                ELSE IF r.ok THEN "ok" ELSE r.error,
                       !.uid = IF ~a.empty /\ r.ok THEN Some(UidOf(r.user)) ELSE Null]
    /\ UNCHANGED <<variant, membership, board, verifiers, uploads, now, users, tasks, subs, referrals,
                   seq_tasks, seq_subs, resp, nops, hist, procs, dblock>>

InitAuth ==
    /\ InitTables
    /\ auth \in {Process(env, token, "init") : env \in Envs, token \in Tokens}

NextAuth ==
    \/ startup
    \/ \E a \in InitDatas : webapp_request(a)

SpecAuth == InitAuth /\ [][NextAuth]_vars

----------------------------------------------------------------------------
(* Handlers behind the verification of init_data (SpecIdentity) *)

\* The init_data carries a hash made with the configured secret over its
\* other fields
Signed(a, bot_token) ==
    ~a.empty /\ a.hash = Some(Hmac(bot_token, DataCheckString(a)))

\* user = parsed.get("user", {}); uid = int(user.get("id") or 0)
HandlerUid(a) == UidOf(verify_init_data(a, auth.token).user)

\* verify_init_data accepts the signed init_data a
Accepted(a) == Signed(a, auth.token) /\ verify_init_data(a, auth.token).ok

\* A signed request to one of the reward handlers: the handler goes on as
\* HandlerUid(a); member is the answer of the membership check for that id
signed_daily_claim(a) == Accepted(a) /\ daily_claim(HandlerUid(a))

signed_ad_watched(a, member) == Accepted(a) /\ ad_watched(HandlerUid(a), member)

signed_verify_ad(a, member) == Accepted(a) /\ verify_ad(HandlerUid(a), member)

signed_submit_proof(a, tid, member) ==
    Accepted(a) /\ submit_proof(HandlerUid(a), tid, member, "good", TRUE)

NextIdentity ==
    \/ Tick
    \/ \E a \in InitDatas : signed_daily_claim(a)
    \/ \E a \in InitDatas, member \in BOOLEAN : signed_ad_watched(a, member)
    \/ \E a \in InitDatas, member \in BOOLEAN : signed_verify_ad(a, member)
    \/ \E a \in InitDatas, tid \in TaskArgs, member \in BOOLEAN :
          signed_submit_proof(a, tid, member)

SpecIdentity == Init /\ [][NextIdentity]_vars

----------------------------------------------------------------------------
(* Properties *)

\* The step is a request to handler op
Call(op) == resp'.seq # resp.seq /\ resp'.op = op

\* The balance of uid in tbl, 0 when there is no account
Coins(tbl, uid) == IF uid \in DOMAIN tbl THEN tbl[uid].coins ELSE 0

\* C1, first part: a daily_claim call of user u succeeds iff u was not credited
\* a daily reward on the current UTC date; a successful call credits exactly the
\* daily reward to u and to nobody else; a call on a date already claimed
\* returns already_claimed and leaves the users table (balance, last_daily) as
\* it was.
C1_Step ==
    \A u \in UserIds :
        (Call("daily_claim") /\ resp'.uid = u) =>
            LET fresh == DateOf(now) \notin hist.okDates[u]
            IN  /\ (resp'.code = "ok") <=> fresh
                /\ fresh =>
                      /\ resp'.amount = DailyReward
                      /\ \A x \in UserIds :
                            Coins(users', x) = Coins(users, x) +
                                               (IF x = u THEN DailyReward ELSE 0)
                      /\ DateOf(now) \in hist'.okDates[u]
                /\ ~fresh => (resp'.code = "already_claimed" /\ users' = users)

\* C1, second part: the number of credited claims of a user equals the number
\* of distinct UTC dates on which the user called daily_claim.
C1_Count ==
    \A u \in UserIds : hist.dailyCredits[u] = Cardinality(hist.dailyCalls[u])

\* C1: daily_claim credits the daily reward once per UTC date and user: a call
\* succeeds iff the date differs from the user's last claim date, a repeated
\* call on the same date returns already_claimed and changes nothing, and the
\* credited claims are as many as the dates the user claimed on.
C1_DailyClaimOncePerDate == C1_Count /\ [][C1_Step /\ C1_Count']_vars

\* C1 witness: a user credited once on date 0 called again at a later instant
\* of that date and got already_claimed.
C1_Witness ==
    /\ resp.op = "daily_claim" /\ resp.code = "already_claimed"
    /\ now > 0 /\ DateOf(now) = 0
    /\ hist.dailyCredits[resp.uid] = 1
    /\ users[resp.uid].coins = DailyReward

\* C2: under every interleaving of the statements of concurrent daily_claim
\* calls, a user is credited at most once per UTC date, the balance is the
\* daily reward times the number of credited calls (no credit is lost or
\* doubled), and of two finished calls of one user for one date at least one
\* returned already_claimed while the date did get its one credit.
C2_ExactlyOneCredit ==
    /\ \A u \in UserIds : hist.dailyCredits[u] = Cardinality(hist.okDates[u])
    /\ \A u \in DOMAIN users : users[u].coins = DailyReward * hist.dailyCredits[u]
    /\ \A p, q \in ProcIds :
          (/\ p # q
           /\ procs[p].pc = "done" /\ procs[q].pc = "done"
           /\ procs[p].uid = procs[q].uid
           /\ procs[p].today = procs[q].today)
          => /\ "already_claimed" \in {procs[p].result, procs[q].result}
             /\ procs[p].today \in hist.okDates[procs[p].uid]

\* C2 witness: two calls of one user for one date were in flight together;
\* one was credited, the other returned already_claimed.
C2_Witness ==
    \E p, q \in ProcIds :
        /\ p # q
        /\ procs[p].pc = "done" /\ procs[q].pc = "done"
        /\ procs[p].uid = procs[q].uid
        /\ procs[p].today = procs[q].today
        /\ procs[q].concurrent
        /\ procs[p].result = "ok" /\ procs[q].result = "already_claimed"
        /\ users[procs[p].uid].coins = DailyReward

\* C3, per call: an approve by an admin of a submission that is no longer
\* pending returns already_reviewed and changes no account and no submission.
C3_Step ==
    (/\ Call("review") /\ resp'.arg = "approve" /\ resp'.uid \in ADMIN_IDS
     /\ resp'.ref \in DOMAIN subs
     /\ subs[resp'.ref].status # "pending")
    => (resp'.code = "already_reviewed" /\ users' = users /\ subs' = subs)

C3_AtMostOnce == \A s \in DOMAIN hist.subCredits : hist.subCredits[s] <= 1

\* C3: approving an already reviewed submission returns already_reviewed and
\* credits nothing; over any sequence of reviews a submission is credited at
\* most once.
C3_NoDoubleCredit == C3_AtMostOnce /\ [][C3_Step /\ C3_AtMostOnce']_vars

\* C3 witness: a second approve of an approved, once-credited submission was
\* answered already_reviewed.
C3_Witness ==
    /\ resp.op = "review" /\ resp.arg = "approve" /\ resp.code = "already_reviewed"
    /\ resp.ref \in DOMAIN subs
    /\ subs[resp.ref].status = "approved"
    /\ hist.subCredits[resp.ref] = 1

\* C4: a submission's status changes only from pending to approved or to
\* rejected; a submission that is approved or rejected keeps its status,
\* reviewed_by and review_reason in every later step; a new submission is
\* pending and takes an id no submission had before.
C4_StatusTransitions ==
    [][ /\ \A s \in DOMAIN subs \cap DOMAIN subs' :
              /\ subs[s].status # "pending" => subs'[s] = subs[s]
              /\ subs'[s].status # subs[s].status =>
                    (subs[s].status = "pending"
                     /\ subs'[s].status \in {"approved", "rejected"})
        /\ \A s \in DOMAIN subs' \ DOMAIN subs :
              s > seq_subs /\ subs'[s].status = "pending"
      ]_vars

\* C4 witness: a reject of an approved submission was refused and the
\* submission still carries the first review.
C4_Witness ==
    /\ resp.op = "review" /\ resp.arg = "reject" /\ resp.code = "already_reviewed"
    /\ resp.ref \in DOMAIN subs
    /\ subs[resp.ref].status = "approved"
    /\ subs[resp.ref].review_reason = Some("")

\* The reward the task has now, 0 when the task does not exist
CurrentReward(tid) == IF tid \in DOMAIN tasks THEN tasks[tid].reward ELSE 0

\* The step moves submission s to approved
MovesToApproved(s) ==
    /\ s \in DOMAIN subs /\ s \in DOMAIN subs'
    /\ subs[s].status # "approved" /\ subs'[s].status = "approved"

\* C5: a review changes a balance iff it moves the submission to approved
\* (then the response is approved), and then the submitter's balance, and no
\* other, rises by the reward the referenced task has at review time.
C5_CreditAtReviewTime ==
    [][ Call("review") =>
          LET s == resp'.ref
          IN  /\ (resp'.code = "approved") <=> MovesToApproved(s)
              /\ \A u \in UserIds :
                    Coins(users', u) - Coins(users, u) =
                        IF MovesToApproved(s) /\ u = subs[s].user_id
                        THEN CurrentReward(subs[s].task_id) ELSE 0
              /\ resp'.code = "approved" =>
                    resp'.amount = CurrentReward(subs[s].task_id)
      ]_vars

\* C5 witness: a submission made while its task had one (non-zero) reward was
\* approved after the reward was changed, and the new reward was credited.
C5_Witness ==
    /\ resp.op = "review" /\ resp.code = "approved"
    /\ resp.ref \in DOMAIN subs
    /\ hist.submitReward[resp.ref] # 0
    /\ resp.amount # hist.submitReward[resp.ref]
    /\ users[subs[resp.ref].user_id].coins = resp.amount

\* C6 (as claimed): every balance is >= 0 in every state and no step lowers a
\* balance.
C6_BalancesNeverDecrease ==
    /\ \A u \in DOMAIN users : users[u].coins >= 0
    /\ [][ /\ \A u \in DOMAIN users' : users'[u].coins >= 0
           /\ \A u \in DOMAIN users : users'[u].coins >= users[u].coins ]_vars

\* C7 (as claimed): once user A has registered a referral with an inviter, a
\* /start of A carrying another inviter's id changes no balance.
C7_SecondInviterNotCredited ==
    [][ (/\ Call("start")
         /\ hist.firstInviter[resp'.uid] # Null
         /\ resp'.ref # 0
         /\ resp'.ref # hist.firstInviter[resp'.uid][1])
        => \A u \in DOMAIN users : users'[u].coins = users[u].coins ]_vars

\* C8 (as claimed): a /start of a user carrying the id of an inviter the user
\* is already linked to credits nobody.
C8_InviterCreditedOnce ==
    [][ (Call("start") /\ <<resp'.ref, resp'.uid>> \in referrals)
        => \A u \in DOMAIN users : users'[u].coins = users[u].coins ]_vars

\* The step is a referral registration of A with the existing account B
Registers(A, B) ==
    /\ Call("start") /\ resp'.uid = A /\ resp'.ref = B
    /\ A # B /\ B \in DOMAIN users

C10_FailedReferralMutatesNothing ==
    [][ (/\ Call("start")
         /\ resp'.ref # 0
         /\ (resp'.ref = resp'.uid \/ resp'.ref \notin DOMAIN users))
        => /\ referrals' = referrals
           /\ \A u \in DOMAIN users : users'[u].coins = users[u].coins ]_vars

\* The inviters recorded for user u
InvitersOf(u) == {r \in UserIds : <<r, u>> \in referrals}

\* C11 (as claimed): every user has at most one recorded inviter, never the
\* user itself, and a recorded inviter link is never removed or replaced.
C11_SingleInviter ==
    /\ \A u \in UserIds : Cardinality(InvitersOf(u)) <= 1 /\ u \notin InvitersOf(u)
    /\ [][ /\ referrals \subseteq referrals'
           /\ \A u \in UserIds :
                 Cardinality({r \in UserIds : <<r, u>> \in referrals'}) <= 1 ]_vars

\* The step is a request to an endpoint that credits an ad view
AdCall == Call("ad_watched") \/ Call("verify_ad")

\* C12 (as claimed): a request to ad_watched or verify_ad by a caller who is
\* not a member of the channel changes no balance, no ads_watched, no streak
\* counter and creates no account.
C12_NoAdRewardForNonMember ==
    [][ (AdCall /\ ~resp'.member) => users' = users ]_vars

\* The row of uid before the step; the row INSERT OR IGNORE creates when none
RowBefore(uid) == IF uid \in DOMAIN users THEN users[uid] ELSE NewUser(0)

\* The step is an ad_watched call that returned ok
AdWatchedOk == Call("ad_watched") /\ resp'.code = "ok"

\* C13: an ad_watched call of a member succeeds; a successful call leaves the
\* caller with an account whose ads_watched is 1 higher, whose balance is the
\* ad reward (100) higher, whose streak counter is 1 higher modulo the
\* threshold, and whose last_daily is as before; no other account is created
\* or changed.
C13_AdWatchedEffect ==
    [][ /\ (Call("ad_watched") /\ resp'.member) => resp'.code = "ok"
        /\ AdWatchedOk =>
             LET u   == resp'.uid
                 old == RowBefore(u)
             IN  /\ DOMAIN users' = DOMAIN users \cup {u}
                 /\ users'[u].ads_watched = old.ads_watched + 1
                 /\ users'[u].coins = old.coins + 100
                 /\ users'[u].ad_counter = (old.ad_counter + 1) % BoostThreshold
                 /\ users'[u].last_daily = old.last_daily
                 /\ \A x \in DOMAIN users \ {u} : users'[x] = users[x]
                 /\ resp'.amount = 100
      ]_vars

\* C13 witness: a member who claimed the daily reward watched a second ad; the
\* account holds both ad rewards, the daily claim is still recorded, and
\* another account exists beside it.
C13_Witness ==
    /\ resp.op = "ad_watched" /\ resp.code = "ok"
    /\ users[resp.uid].ads_watched = 2
    /\ users[resp.uid].ad_counter = 2
    /\ users[resp.uid].coins = DailyReward + 2 * AdReward
    /\ users[resp.uid].last_daily # Null

\* C14, per call: a successful ad_watched call with the streak counter below
\* threshold - 1 raises the counter by 1 and leaves boost_until as it was; with
\* the counter at threshold - 1 it sets boost_until to now + boost duration and
\* the counter to 0.
C14_Step ==
    AdWatchedOk =>
        LET u   == resp'.uid
            old == RowBefore(u)
        IN  IF old.ad_counter + 1 < BoostThreshold
            THEN /\ users'[u].ad_counter = old.ad_counter + 1
                 /\ users'[u].boost_until = old.boost_until
            ELSE /\ users'[u].ad_counter = 0
                 /\ users'[u].boost_until = Some(now + BoostHours)

\* C14, per state: the streak counter stays below the threshold, and no boost
\* is set before the account's third ad view; in main.py, where only
\* ad_watched counts ad views, the counter is the number of views modulo the
\* threshold (0, 1, 2, 0, 1 after calls 0..4) and the boost is set exactly from
\* the third view on.
C14_Inv ==
    \A u \in DOMAIN users :
        /\ users[u].ad_counter \in 0..(BoostThreshold - 1)
        /\ users[u].ads_watched < BoostThreshold => users[u].boost_until = Null
        /\ variant = "main" =>
              /\ users[u].ad_counter = users[u].ads_watched % BoostThreshold
              /\ users[u].boost_until = Null <=> users[u].ads_watched < BoostThreshold

HashMatches(a, token) == a.hash = Some(Hmac(token, DataCheckString(a)))

\* C15 (as claimed): with a secret configured, a handler goes on with an
\* identity only when the init_data carries the matching hash; an empty
\* init_data is rejected as missing and every other init_data without the
\* matching hash is rejected as an invalid signature.
C15_IdentityOnlyOnMatchedHash ==
    (auth.token # NoToken /\ auth.request # Null) =>
        LET a == auth.request[1]
        IN  /\ auth.uid # Null <=> (~a.empty /\ HashMatches(a, auth.token))
            /\ a.empty => auth.code = "init_data_required"
            /\ (~a.empty /\ ~HashMatches(a, auth.token)) => auth.code = "invalid_hash"

\* C16 (as claimed): a process configured with ENV production and no BOT_TOKEN
\* never runs, and so serves no request.
C16_NoProductionWithoutSecret ==
    (auth.env = "production" /\ auth.token = NoToken) =>
        (auth.state # "running" /\ auth.request = Null)

\* The file passes the upload preconditions: not empty, at most 5 MiB, a
\* suffix in the allow-list (or none), and a valid image
ProofAcceptable(file) ==
    /\ FileSize(file) > 0
    /\ FileSize(file) <= 5 * 1024 * 1024
    /\ Lower(FileSuffix(file)) \in ALLOWED_EXT \cup {""}
    /\ FileIsImage(file)

\* The request of the step passes every precondition of submit_proof
SubmitAllowed == resp'.authed /\ resp'.member /\ ProofAcceptable(resp'.arg)

\* C17 (as claimed): a submit_proof request that fails a precondition
\* (unauthenticated, not a member, empty file, file over 5 MiB, suffix outside
\* the allow-list, not an image) creates no submission and stores no file.
C17_FailedSubmitStoresNothing ==
    [][ (Call("submit_proof") /\ ~SubmitAllowed)
        => (subs' = subs /\ seq_subs' = seq_subs /\ uploads' = uploads) ]_vars

\* C18: a submit_proof request that passes all preconditions succeeds; a
\* successful request adds exactly one submission, under an id no submission
\* ever had, owned by the caller, for the task id given, pending and without
\* reviewer, and changes no balance.
C18_SubmitCreatesPending ==
    [][ Call("submit_proof") =>
          /\ SubmitAllowed => resp'.code = "ok"
          /\ resp'.code = "ok" =>
                \E s \in DOMAIN subs' :
                    /\ s \notin DOMAIN hist.subCredits
                    /\ subs' = subs @@ (s :> subs'[s])
                    /\ DOMAIN subs' = DOMAIN subs \cup {s}
                    /\ subs'[s].user_id = resp'.uid
                    /\ subs'[s].task_id = resp'.ref
                    /\ subs'[s].status = "pending"
                    /\ subs'[s].reviewed_by = Null
                    /\ \A u \in UserIds : Coins(users', u) = Coins(users, u)
      ]_vars

\* C18 witness: a member with a balance submitted a proof after an earlier
\* submission was deleted with its task; the new submission took the next id,
\* is pending, and the balance is as it was.
C18_Witness ==
    /\ resp.op = "submit_proof" /\ resp.code = "ok"
    /\ DOMAIN subs = {2}
    /\ subs[2].status = "pending" /\ subs[2].user_id = resp.uid
    /\ users[resp.uid].coins = DailyReward

\* The submission ids handed out so far that no longer have a row
RemovedSubs == DOMAIN hist.subCredits \ DOMAIN subs

\* C19, delete: delete_task by an admin leaves no task under the id, no
\* submission that referenced it (pending, approved or rejected), and every
\* other task and submission as it was.
C19_DeleteStep ==
    (Call("delete_task") /\ resp'.uid \in ADMIN_IDS) =>
        LET tid == resp'.ref
        IN  /\ tid \notin DOMAIN tasks'
            /\ DOMAIN tasks' = DOMAIN tasks \ {tid}
            /\ \A k \in DOMAIN tasks' : tasks'[k] = tasks[k]
            /\ DOMAIN subs' = {s \in DOMAIN subs : subs[s].task_id # tid}
            /\ \A s \in DOMAIN subs' : subs'[s] = subs[s]
            /\ users' = users

\* C19, later review: an approve or reject by an admin of a removed submission
\* id returns submission_not_found and changes no account and no submission.
C19_ReviewStep ==
    (/\ Call("review") /\ resp'.uid \in ADMIN_IDS
     /\ resp'.arg \in {"approve", "reject"}
     /\ resp'.ref \in RemovedSubs)
    => (resp'.code = "submission_not_found" /\ users' = users /\ subs' = subs)

\* C19: delete_task by an admin removes the task and all its submissions,
\* whatever their status, and only those; a removed submission id is never
\* handed out again, and a later review of it fails with not-found and credits
\* nothing.
C19_DeleteCascade ==
    [][ /\ C19_DeleteStep
        /\ C19_ReviewStep
        /\ RemovedSubs \subseteq (DOMAIN hist'.subCredits \ DOMAIN subs') ]_vars

\* C19 witness: a submission was approved, its task was deleted, and a later
\* approve of the submission id was answered not-found.
C19_Witness ==
    /\ resp.op = "review" /\ resp.arg = "approve"
    /\ resp.code = "submission_not_found"
    /\ resp.ref \in RemovedSubs
    /\ hist.subCredits[resp.ref] = 1

\* A privileged reviewer: an admin, or a verifier added and not removed
Privileged(uid) == uid \in ADMIN_IDS \/ uid \in verifiers

\* C20 (as claimed): a review by a privileged caller (admin or current
\* verifier) of a pending submission, with action approve or reject, is
\* carried out; a review by any other caller is refused with admin_only and
\* changes no submission and no account.
C20_ReviewByPrivilegedOnly ==
    [][ Call("review") =>
          /\ (/\ Privileged(resp'.uid)
              /\ resp'.arg \in {"approve", "reject"}
              /\ resp'.ref \in DOMAIN subs
              /\ subs[resp'.ref].status = "pending")
             => resp'.code \in {"approved", "rejected"}
          /\ ~Privileged(resp'.uid)
             => (resp'.code = "admin_only" /\ subs' = subs /\ users' = users)
      ]_vars

\* The step is a request to one of the task catalog handlers
CatalogCall == Call("add_task") \/ Call("edit_task") \/ Call("delete_task")

\* C21: add_task, edit_task and delete_task by a caller who is not an admin
\* return admin_only and leave tasks and submissions as they were; the task
\* table changes only in a step that is a catalog request by an admin.
C21_CatalogAdminOnly ==
    [][ /\ (CatalogCall /\ resp'.uid \notin ADMIN_IDS)
           => /\ resp'.code = "admin_only"
              /\ tasks' = tasks /\ seq_tasks' = seq_tasks /\ subs' = subs
        /\ (tasks' # tasks \/ seq_tasks' # seq_tasks)
           => (CatalogCall /\ resp'.uid \in ADMIN_IDS)
      ]_vars

\* C21 witness: a non-admin asked to delete an existing task that has a
\* submission; the request was refused and task and submission are in place.
C21_Witness ==
    /\ resp.op = "delete_task" /\ resp.code = "admin_only"
    /\ resp.uid \notin ADMIN_IDS
    /\ resp.ref \in DOMAIN tasks
    /\ \E s \in DOMAIN subs : subs[s].task_id = resp.ref

\* The step is a review by an admin, with action, of an existing submission
\* whose status is in statuses
AdminReview(action, statuses) ==
    /\ Call("review") /\ resp'.uid \in ADMIN_IDS /\ resp'.arg = action
    /\ resp'.ref \in DOMAIN subs
    /\ subs[resp'.ref].status \in statuses

\* C22: a reject by an admin of a pending submission answers rejected, sets
\* the submission's status to rejected, its reviewer to the caller and its
\* reason to the one given, leaves its owner, task and stored proof and every
\* other submission as they were, and changes no account.
C22_RejectEffect ==
    [][ AdminReview("reject", {"pending"}) =>
          LET s == resp'.ref
          IN  /\ resp'.code = "rejected"
              /\ subs' = [subs EXCEPT ![s] =
                            [user_id |-> subs[s].user_id,
                             task_id |-> subs[s].task_id,
                             status |-> "rejected",
                             reviewed_by |-> Some(resp'.uid),
                             review_reason |-> Some(resp'.reason),
                             file_path |-> subs[s].file_path]]
              /\ users' = users
      ]_vars

\* C22 witness: a pending submission for a task with a reward, by a user with
\* a balance, was rejected with a reason; the reason and the reviewer are
\* recorded and the balance is as it was.
C22_Witness ==
    /\ resp.op = "review" /\ resp.code = "rejected" /\ resp.reason = "blurry"
    /\ subs[resp.ref].status = "rejected"
    /\ subs[resp.ref].review_reason = Some("blurry")
    /\ subs[resp.ref].reviewed_by = Some(resp.uid)
    /\ subs[resp.ref].task_id \in DOMAIN tasks
    /\ tasks[subs[resp.ref].task_id].reward = 5
    /\ users[subs[resp.ref].user_id].coins = DailyReward

\* C23 (as claimed): a review by an admin of a submission that is approved or
\* rejected answers already_reviewed, carries the submission's status in the
\* answer, and changes no submission and no account.
C23_AlreadyReviewedCarriesStatus ==
    [][ (AdminReview("approve", {"approved", "rejected"})
         \/ AdminReview("reject", {"approved", "rejected"}))
        => /\ resp'.code = "already_reviewed"
           /\ resp'.status = subs[resp'.ref].status
           /\ subs' = subs /\ users' = users
      ]_vars

\* The reward amount the request of the step credits to account u, judged by
\* the request and its answer: the daily reward of a daily_claim answered ok,
\* the ad reward of an ad_watched or verify_ad answered ok, the reward of a
\* submission of u answered approved, the referral reward of a /start that
\* names the existing account u as inviter of another user.
RewardCredited(u) ==
    IF (Call("daily_claim") /\ resp'.code = "ok" /\ resp'.uid = u) THEN DailyReward
    ELSE IF (AdCall /\ resp'.code = "ok" /\ resp'.uid = u) THEN AdReward
    ELSE IF (/\ Call("review") /\ resp'.code = "approved"
             /\ subs[resp'.ref].user_id = u) THEN resp'.amount
    ELSE IF (/\ Call("start") /\ variant = "main" /\ resp'.ref = u
             /\ resp'.uid # u /\ u \in DOMAIN users) THEN ReferralReward
    ELSE 0

\* C24 (as claimed): an account starts with balance 0 whichever operation
\* creates it, and every step changes a balance by exactly the reward amount
\* the step's operation credits to it; so every balance is the sum of the
\* rewards credited to the account.
C24_BalanceIsSumOfRewards ==
    [][ \A u \in UserIds : Coins(users', u) = Coins(users, u) + RewardCredited(u) ]_vars

\* The balance account u is created with in the step: the sign-up balance
\* (100) when a /start creates it, 0 otherwise
CreatedWith(u) ==
    IF Call("start") /\ resp'.uid = u /\ u \notin DOMAIN users THEN StartCoins ELSE 0

\* C24 (amended): an account is created with balance 100 by /start and with
\* balance 0 by every other operation, and every step changes a balance by
\* exactly the reward amount the step's operation credits to it; so every
\* balance is the creation balance plus the sum of the rewards credited.
C24_BalanceIsStartPlusRewards ==
    [][ \A u \in UserIds :
          Coins(users', u) = Coins(users, u) + CreatedWith(u) + RewardCredited(u) ]_vars

\* C24 witness: one account was created by /start and then claimed the daily
\* reward, another was created by its first ad view.
C24_Witness ==
    \E u, v \in DOMAIN users :
        /\ users[u].coins = StartCoins + DailyReward
        /\ users[u].last_daily # Null
        /\ users[v].coins = AdReward
        /\ users[v].ads_watched = 1

----------------------------------------------------------------------------
\* A review_submission call of worker p that has returned with the given results
ReviewDone(p, results) ==
    /\ procs[p].pc = "done"
    /\ procs[p].op = "review"
    /\ procs[p].result \in results

\* C25: two concurrent review_submission calls for the same pending submission
\* credit the submitter at most once, and at most one of them reviews it (the
\* other observes already-reviewed), under every interleaving of their
\* statements.
C25_ConcurrentReviewOnce ==
    /\ \A s \in DOMAIN hist.subCredits : hist.subCredits[s] <= 1
    /\ \A p, q \in ProcIds :
          (/\ p # q
           /\ ReviewDone(p, {"approved", "rejected"})
           /\ ReviewDone(q, {"approved", "rejected"})
           /\ procs[p].sid = procs[q].sid)
          => FALSE

----------------------------------------------------------------------------
\* Worker p commits a request of handler op in this step
Commits(p, op) ==
    /\ procs[p].pc = "commit"
    /\ procs[p].op = op
    /\ procs'[p].pc # "commit"
    /\ procs'[p].result # "error"

\* The row of user u, or the row the handler creates when there is none
RowOrNew(tbl, u) == IF u \in DOMAIN tbl THEN tbl[u] ELSE NewUser(0)

\* C26: no operation leaves partial state.  The committed tables are what
\* other requests see.  A user's row changes only when an ad_watched call
\* commits, and then balance, ads_watched and streak counter/boost change
\* together, or when an approval commits, and then the submission is approved
\* in the same step; a submission changes only when a review commits, an
\* approval together with its credit and a rejection with no credit; a request
\* that fails midway changes nothing.
C26_NoPartialState ==
    [][ resp' = resp =>
        /\ \A u \in DOMAIN users' :
              (u \notin DOMAIN users \/ users'[u] # users[u]) =>
              \/ \E p \in ProcIds :
                    /\ Commits(p, "ad")
                    /\ procs[p].uid = u
                    /\ users'[u] = AdWatchedRow(RowOrNew(users, u), now)
              \/ \E p \in ProcIds :
                    /\ Commits(p, "review")
                    /\ procs[p].action = "approve"
                    /\ procs[p].target = u
                    /\ users'[u] = [RowOrNew(users, u) EXCEPT
                                       !.coins = @ + procs[p].reward]
                    /\ subs'[procs[p].sid].status = "approved"
        /\ \A s \in DOMAIN subs' :
              (s \notin DOMAIN subs \/ subs'[s] # subs[s]) =>
              \E p \in ProcIds :
                 /\ Commits(p, "review")
                 /\ procs[p].sid = s
                 /\ IF procs[p].action = "approve"
                    THEN /\ subs'[s].status = "approved"
                         /\ procs[p].target \in DOMAIN users'
                         /\ users'[procs[p].target].coins =
                               RowOrNew(users, procs[p].target).coins + procs[p].reward
                    ELSE /\ subs'[s].status = "rejected"
                         /\ users' = users
        /\ DOMAIN users \subseteq DOMAIN users'
        /\ DOMAIN subs \subseteq DOMAIN subs' ]_vars

\* A request that failed after its first write
FailedMidway(p, op) ==
    /\ procs[p].pc = "done"
    /\ procs[p].op = op
    /\ procs[p].result = "error"
    /\ procs[p].w # <<>>

\* A call has failed after its first write, and an ad_watched call has
\* committed and is visible
C26_Witness ==
    /\ \E p \in ProcIds : FailedMidway(p, "ad") \/ FailedMidway(p, "review")
    /\ \E p \in ProcIds : procs[p].pc = "done" /\ procs[p].op = "ad"
                          /\ procs[p].result = "ok"
    /\ \E u \in DOMAIN users : users[u].ads_watched > 0

----------------------------------------------------------------------------
\* A request to one of the handlers that ask is_member_of_channel
MemberCall == Call("ad_watched") \/ Call("submit_proof")

\* The membership of the caller cannot be established: no bot client, no
\* channel name, or get_chat_member raises
CheckFails(d) ==
    \/ ~d.bot
    \/ extract_channel_username(d.link) = ""
    \/ d.outcome = "raise"

\* The request ended with the membership-required outcome and changed nothing
RefusedForMembership ==
    /\ resp'.member = FALSE
    /\ resp'.code = "join_channel"
    /\ users' = users
    /\ subs' = subs
    /\ uploads' = uploads

Skipped == variant = "configure" /\ membership.skip

----------------------------------------------------------------------------
\* Pages 1..last of the leaderboard of tbl, one after the other
RECURSIVE PagesUpTo(_, _, _)
PagesUpTo(tbl, per_page, last) ==
    IF last = 0 THEN <<>>
    ELSE PagesUpTo(tbl, per_page, last - 1) \o LeaderboardRows(tbl, last, per_page)

\* For page size per_page the pages, concatenated, list every account of tbl
\* exactly once with its balance, in descending balance, and page p holds the
\* positions (p-1)*per_page+1 .. p*per_page of that list
StablyPaged(tbl, per_page) ==
    LET all == PagesUpTo(tbl, per_page, Cardinality(Pages))
    IN  /\ Len(all) = Cardinality(DOMAIN tbl)
        /\ {all[i].user_id : i \in 1..Len(all)} = DOMAIN tbl
        /\ \A i \in 1..Len(all) : all[i].coins = tbl[all[i].user_id].coins
        /\ \A i, j \in 1..Len(all) : i < j => all[i].coins >= all[j].coins
        /\ \A p \in Pages :
              LET rows == LeaderboardRows(tbl, p, per_page)
              IN  /\ Len(rows) <= per_page
                  /\ \A k \in 1..Len(rows) :
                        /\ (p - 1) * per_page + k <= Len(all)
                        /\ rows[k] = all[(p - 1) * per_page + k]
                  /\ \A k \in (Len(rows) + 1)..per_page :
                        (p - 1) * per_page + k > Len(all)

\* Every page size whose pages in Pages cover the accounts of tbl
AllStablyPaged(tbl) ==
    \A per_page \in PerPages :
       Cardinality(DOMAIN tbl) <= Cardinality(Pages) * per_page
           => StablyPaged(tbl, per_page)

----------------------------------------------------------------------------
\* Request op of user u has just been answered with code
Answered(op, u, code) == Call(op) /\ resp'.uid = u /\ resp'.code = code

\* The row is the old one but for its balance
OnlyCoinsChange(old, new, amount) == new = [old EXCEPT !.coins = @ + amount]

\* C29: account creation is an idempotent create-if-absent.  No step removes
\* or replaces an account: for an account that exists, the operations that
\* ensure it (ad_watched, verify_ad, daily_claim, submit_proof, /start,
\* approve) apply their own effect to the stored balance, counters, boost and
\* last claim date and the ensure step itself changes none of them.
C29_EnsureKeepsAccount ==
    [][ \A u \in DOMAIN users :
        /\ u \in DOMAIN users'
        /\ Answered("ad_watched", u, "ok") =>
              users'[u] = AdWatchedRow(users[u], now)
        /\ Answered("verify_ad", u, "ok") =>
              users'[u] = [users[u] EXCEPT !.coins = @ + AdReward,
                                           !.ads_watched = @ + 1]
        /\ Answered("daily_claim", u, "ok") =>
              /\ users'[u].coins = users[u].coins + DailyReward
              /\ users'[u].last_daily # Null
              /\ [users'[u] EXCEPT !.coins = 0, !.last_daily = Null]
                    = [users[u] EXCEPT !.coins = 0, !.last_daily = Null]
        /\ Answered("submit_proof", u, "ok") => users'[u] = users[u]
        /\ Answered("start", u, "ok") => users'[u] = users[u]
        /\ (/\ Answered("review", resp'.uid, "approved")
            /\ subs[resp'.ref].user_id = u) =>
              OnlyCoinsChange(users[u], users'[u], resp'.amount) ]_vars

\* C29 witness: /start was sent by a user whose account already existed with
\* ad views, a streak and a claimed daily reward, and the account is as it was
C29_Witness ==
    /\ resp.op = "start"
    /\ resp.uid \in DOMAIN users
    /\ users[resp.uid].ads_watched > 0
    /\ users[resp.uid].last_daily # Null
    /\ users[resp.uid].coins = AdReward + DailyReward

----------------------------------------------------------------------------
\* C30: every successful ad_watched response reports the balance and the
\* ads_watched stored after the call, a remaining-views value equal to the
\* threshold minus the streak counter stored after the call, and a boost-until
\* time iff this call activated the boost (the stored one), none otherwise.
C30_AdResponseMatchesStore ==
    [][ \A u \in WebUsers :
        Answered("ad_watched", u, "ok") =>
           /\ resp'.amount = AdReward
           /\ resp'.total = users'[u].coins
           /\ resp'.views = users'[u].ads_watched
           /\ resp'.ref = BoostThreshold - users'[u].ad_counter
           /\ (resp'.boost # Null) <=>
                 (RowOrNew(users, u).ad_counter = BoostThreshold - 1)
           /\ resp'.boost # Null =>
                 /\ resp'.boost = users'[u].boost_until
                 /\ resp'.boost = Some(now + BoostHours) ]_vars

\* C30 witness: the third ad view in a row was answered with a boost-until
\* time and three remaining views
C30_Witness ==
    /\ resp.op = "ad_watched"
    /\ resp.code = "ok"
    /\ resp.boost # Null
    /\ resp.ref = BoostThreshold
    /\ resp.views = BoostThreshold
    /\ resp.total >= BoostThreshold * AdReward

----------------------------------------------------------------------------
\* C31: in every reachable state every submission references a task that
\* exists in the task catalog (submit_proof creates none for an absent task,
\* delete_task leaves none of the deleted task behind).
C31_SubmissionsReferenceTasks ==
    \A s \in DOMAIN subs : subs[s].task_id \in DOMAIN tasks

----------------------------------------------------------------------------
\* C32: distinct submissions never share a stored proof reference: any two
\* submissions, also two of the same user within the same second, have
\* different file_path values.
C32_DistinctProofNames ==
    \A s1, s2 \in DOMAIN subs :
       s1 # s2 => subs[s1].file_path # subs[s2].file_path

----------------------------------------------------------------------------
\* C33: an assertion that carries no user identity never causes an account to
\* be created, credited or given a submission: no account and no submission
\* exists under the default id 0.
C33_NoDefaultIdentity ==
    /\ 0 \notin DOMAIN users
    /\ \A s \in DOMAIN subs : subs[s].user_id # 0

----------------------------------------------------------------------------
\* Every stored streak counter is below the threshold
CountersBelowThreshold(tbl) ==
    \A u \in DOMAIN tbl : tbl[u].ad_counter \in 0..(BoostThreshold - 1)

\* The ad_watched call of u answered in this step brings u's counter to the
\* threshold
ReachesThreshold(u) ==
    /\ Answered("ad_watched", u, "ok")
    /\ RowOrNew(users, u).ad_counter + 1 = BoostThreshold

\* C34: in every committed state each user's ad_counter is 0, 1 or 2, and
\* boost_until is set by an ad_watched call exactly when that call brings the
\* counter to the threshold 3.
C34_StreakBelowThreshold ==
    /\ CountersBelowThreshold(users)
    /\ [][ /\ CountersBelowThreshold(users')
           /\ \A u \in DOMAIN users' :
                 /\ ReachesThreshold(u) =>
                       /\ users'[u].boost_until = Some(now + BoostHours)
                       /\ users'[u].ad_counter = 0
                 /\ users'[u].boost_until # RowOrNew(users, u).boost_until =>
                       ReachesThreshold(u) ]_vars

\* C34 witness: a user's third ad view in a row set the boost and the counter
\* is back at 0, while another view has already been counted after it
C34_Witness ==
    \E u \in DOMAIN users :
       /\ users[u].boost_until # Null
       /\ users[u].ad_counter = 1
       /\ users[u].ads_watched = BoostThreshold + 1

----------------------------------------------------------------------------
\* C35: in every reachable state a submission has a recorded reviewer iff its
\* status is approved or rejected, and that reviewer is a privileged identity
\* (an admin; the set of admins is fixed at start-up); pending submissions have
\* no reviewer and no review reason.
C35_ReviewerIffReviewed ==
    \A s \in DOMAIN subs :
       /\ subs[s].status \in {"pending", "approved", "rejected"}
       /\ (subs[s].reviewed_by # Null) <=> (subs[s].status \in {"approved", "rejected"})
       /\ subs[s].reviewed_by # Null => subs[s].reviewed_by[1] \in ADMIN_IDS
       /\ subs[s].status = "pending" =>
             (subs[s].reviewed_by = Null /\ subs[s].review_reason = Null)

\* C35 witness: one submission is pending and another was reviewed by the
\* admin, with a reason
C35_Witness ==
    \E s1, s2 \in DOMAIN subs :
       /\ subs[s1].status = "pending"
       /\ subs[s2].status \in {"approved", "rejected"}
       /\ subs[s2].reviewed_by = Some(1)
       /\ subs[s2].review_reason = Some("blurry")

----------------------------------------------------------------------------
\* Worker p has answered ok to a request of handler op for user u
Succeeded(p, op, u) ==
    /\ procs[p].pc \in {"done", "read"}
    /\ procs[p].op = op
    /\ procs[p].uid = u
    /\ procs[p].result # "error"
    /\ procs[p].pc = "done" => procs[p].result = "ok"

\* After exactly one daily_claim and one ad_watched or verify_ad of u, both
\* successful, u's balance is the two rewards on top of the initial 0
BothCredited(u) ==
    \A p, q \in ProcIds :
       (/\ nops = 2
        /\ Succeeded(p, "daily", u)
        /\ Succeeded(q, "ad", u) \/ Succeeded(q, "verify", u))
       => users[u].coins = DailyReward + AdReward

\* C36: a daily_claim and an ad_watched (or verify_ad) call running
\* concurrently for the same user lose no update: every commit adds its reward
\* to the balance committed just before it, and when both calls succeed the
\* final balance is the initial balance plus the daily reward plus the ad
\* reward, under every interleaving.
C36_NoLostUpdate ==
    [][ /\ \A p \in ProcIds :
              /\ Commits(p, "daily") =>
                    users'[procs[p].uid].coins
                       = Coins(users, procs[p].uid) + DailyReward
              /\ Commits(p, "ad") \/ Commits(p, "verify") =>
                    users'[procs[p].uid].coins
                       = Coins(users, procs[p].uid) + AdReward
        /\ \A u \in MixUsers : BothCredited(u)' ]_vars

\* C36 witness: a daily_claim that began while an ad_watched or verify_ad call
\* of the same user was in flight, both answered ok
C36_Witness ==
    \E p, q \in ProcIds, u \in MixUsers :
       /\ nops = 2
       /\ Succeeded(p, "daily", u)
       /\ procs[p].pc = "done"
       /\ procs[p].concurrent
       /\ Succeeded(q, "ad", u) \/ Succeeded(q, "verify", u)
       /\ procs[q].pc = "done"
       /\ users[u].coins = DailyReward + AdReward

----------------------------------------------------------------------------
\* C37: edit_task changes only the fields supplied in the request.  The
\* requests here supply at most the reward: title, description and link of the
\* edited task keep their values, and task_id, all other tasks and all
\* submissions are unchanged.
C37_EditKeepsOmittedFields ==
    [][ (Call("edit_task") /\ resp'.code = "task_updated") =>
        /\ DOMAIN tasks' = DOMAIN tasks
        /\ subs' = subs
        /\ \A t \in DOMAIN tasks :
              /\ t # resp'.ref => tasks'[t] = tasks[t]
              /\ tasks'[t].title = tasks[t].title
              /\ tasks'[t].description = tasks[t].description
              /\ tasks'[t].link = tasks[t].link ]_vars

====
